---- MODULE Spec2Model ----
(***************************************************************************)
(* NSS blood-donation-camp backend: the OTP lifecycle of User and          *)
(* AdminRequest documents (models/User.js, models/AdminRequest.js), the    *)
(* routes that drive it (routes/userRoutes.js, routes/adminRequestRoutes.js)*)
(* the authenticate/authorize middleware chain, the submit step and the    *)
(* review of admin requests, and the donor model with its admin routes     *)
(* (models/Donor.js, routes/adminDonorRoutes.js).                          *)
(*                                                                         *)
(* Every route handler is an async function: each `await` on a database    *)
(* read, a save or an e-mail dispatch is a point where another request may *)
(* run.  A handler is therefore a short sequence of atomic steps, one per  *)
(* slot of Reqs; the synchronous code between two awaits is one step.      *)
(***************************************************************************)
EXTENDS Integers, Sequences, FiniteSets, TLC

(***************************************************************************)
(* Bounds of the model.                                                    *)
(***************************************************************************)
\* how many requests may be received in one behaviour
MaxRequests == 3
\* Math.random() is drawn as a fraction num / RandomDen with 0 <= num < RandomDen
RandomDen == 1000

(***************************************************************************)
(* JavaScript values.  A value is a record [t, v]: its type tag and its    *)
(* payload as a sequence of naturals (the decimal digits of a string, the  *)
(* one number of a number or of a Date in ms since the epoch).             *)
(***************************************************************************)
Undefined == [t |-> "undefined", v |-> <<>>]
Str(digits) == [t |-> "string", v |-> digits]
Num(n) == [t |-> "number", v |-> <<n>>]
Date(ms) == [t |-> "date", v |-> <<ms>>]

\* ToBoolean: undefined, null, "" and 0 are falsy; a Date or an object is truthy
Truthy(x) ==
  CASE x.t = "undefined" -> FALSE
    [] x.t = "null" -> FALSE
    [] x.t = "string" -> x.v # <<>>
    [] x.t = "number" -> x.v[1] # 0
    [] OTHER -> TRUE

\* a === b: same type and same value, no coercion
StrictEquals(a, b) == a.t = b.t /\ a.v = b.v

\* Number.prototype.toString() of a non-negative integer: its decimal digits,
\* most significant first, no leading zero
RECURSIVE NumberToString(_)
NumberToString(n) ==
  IF n < 10 THEN <<n>> ELSE Append(NumberToString(n \div 10), n % 10)

\* Math.floor(base + rnd * span) for integers base, span and the fraction rnd
FloorAffine(base, rnd, span) == base + ((rnd.num * span) \div rnd.den)

\* the draws of Math.random() the model explores: the least and the greatest
MathRandom == { [num |-> n, den |-> RandomDen] : n \in {0, RandomDen - 1} }

(***************************************************************************)
(* The OTP primitives.  A stored challenge is the object                   *)
(* {code: String, expiresAt: Date}; a document without one has otp         *)
(* undefined.  A method returns [ret, threw, self]: its return value,      *)
(* whether it raised instead, and the document as the call leaves it.      *)
(***************************************************************************)
OTP_TTL_MS == 5 * 60 * 1000

OtpObject(code, expiresAt) == [t |-> "object", code |-> code, expiresAt |-> expiresAt]

Returned(value, self) == [ret |-> value, threw |-> FALSE, self |-> self]
Thrown(self) == [ret |-> Undefined, threw |-> TRUE, self |-> self]

\* generateOTP with the lifetime taken in seconds where Date counts milliseconds
User_generateOTP_LifetimeInSeconds(self, rnd, nowMs) ==
  LET otp == Str(NumberToString(FloorAffine(100000, rnd, 900000)))
  IN  Returned(otp, [self EXCEPT !.otp = OtpObject(otp, Date(nowMs + 5 * 60))])

\* userSchema.methods.generateOTP; rnd is the value of Math.random(), nowMs of Date.now()
User_generateOTP(self, rnd, nowMs) ==
  LET otp == Str(NumberToString(FloorAffine(100000, rnd, 900000)))
  IN  Returned(otp, [self EXCEPT !.otp = OtpObject(otp, Date(nowMs + OTP_TTL_MS))])

\* verifyOTP with the expiry test written >= : the instant expiresAt is already expired
User_verifyOTP_ExpiredAtExpiresAt(self, candidateOTP, nowMs) ==
  IF ~Truthy(self.otp) THEN Returned(FALSE, self)
  ELSE IF ~Truthy(self.otp.code) \/ ~Truthy(self.otp.expiresAt) THEN Returned(FALSE, self)
  ELSE IF nowMs >= self.otp.expiresAt.v[1] THEN Returned(FALSE, self)
  ELSE Returned(StrictEquals(self.otp.code, candidateOTP), self)

\* verifyOTP without its guard: this.otp.code is read on a document without
\* a challenge (a TypeError), and a challenge without expiresAt never expires
User_verifyOTP_Unguarded(self, candidateOTP, nowMs) ==
  IF ~Truthy(self.otp) THEN Thrown(self)
  ELSE IF Truthy(self.otp.expiresAt) /\ nowMs > self.otp.expiresAt.v[1] THEN Returned(FALSE, self)
  ELSE Returned(StrictEquals(self.otp.code, candidateOTP), self)

\* userSchema.methods.verifyOTP; nowMs is the value of new Date()
User_verifyOTP(self, candidateOTP, nowMs) ==
  IF ~Truthy(self.otp) THEN Returned(FALSE, self)
  ELSE IF ~Truthy(self.otp.code) \/ ~Truthy(self.otp.expiresAt) THEN Returned(FALSE, self)
  ELSE IF nowMs > self.otp.expiresAt.v[1] THEN Returned(FALSE, self)
  ELSE Returned(StrictEquals(self.otp.code, candidateOTP), self)

\* generateOTP drawing from 0..999999: Math.floor(Math.random() * 1000000)
AdminRequest_generateOTP_FromZero(self, rnd, nowMs) ==
  LET otp == Str(NumberToString(FloorAffine(0, rnd, 1000000)))
  IN  Returned(otp, [self EXCEPT !.otp = OtpObject(otp, Date(nowMs + OTP_TTL_MS))])

\* adminRequestSchema.methods.generateOTP
AdminRequest_generateOTP(self, rnd, nowMs) ==
  LET otp == Str(NumberToString(FloorAffine(100000, rnd, 900000)))
  IN  Returned(otp, [self EXCEPT !.otp = OtpObject(otp, Date(nowMs + OTP_TTL_MS))])

\* verifyOTP made single-use inside the method: a match clears the challenge
AdminRequest_verifyOTP_ClearsOnMatch(self, candidateOTP, nowMs) ==
  IF ~Truthy(self.otp) THEN Returned(FALSE, self)
  ELSE IF ~Truthy(self.otp.code) \/ ~Truthy(self.otp.expiresAt) THEN Returned(FALSE, self)
  ELSE IF nowMs > self.otp.expiresAt.v[1] THEN Returned(FALSE, self)
  ELSE IF StrictEquals(self.otp.code, candidateOTP)
       THEN Returned(TRUE, [self EXCEPT !.otp = Undefined])
       ELSE Returned(FALSE, self)

\* adminRequestSchema.methods.verifyOTP
AdminRequest_verifyOTP(self, candidateOTP, nowMs) ==
  IF ~Truthy(self.otp) THEN Returned(FALSE, self)
  ELSE IF ~Truthy(self.otp.code) \/ ~Truthy(self.otp.expiresAt) THEN Returned(FALSE, self)
  ELSE IF nowMs > self.otp.expiresAt.v[1] THEN Returned(FALSE, self)
  ELSE Returned(StrictEquals(self.otp.code, candidateOTP), self)

(***************************************************************************)
(* State.                                                                  *)
(***************************************************************************)
VARIABLES
  now,            \* the server clock, ms (DonorSpec: <<days, ms of the day>>)
  users,          \* the User collection, in insertion order
  adminRequests,  \* the AdminRequest collection, in insertion order
  admins,         \* the Admin collection
  nextId,         \* the next ObjectId
  nreq,           \* requests received so far
  req,            \* per slot: the request in flight and the handler's position
  last,           \* the response sent most recently
  issued,         \* history: every challenge a save has stored, with its uses
  realm,          \* the collection whose routes this behaviour exercises
  unit,           \* a direct call of verifyOTP on a document (UnitSpec)
  guard,          \* a request passing authenticate and authorize (GuardSpec)
  donors,         \* the Donor collection, in insertion order
  donations       \* history: every record-donation request answered with success

vars == <<now, users, adminRequests, admins, nextId, nreq, req, last, issued, realm, unit, guard,
         donors, donations>>
mainVars == <<now, users, adminRequests, admins, nextId, nreq, req, last, issued, realm,
             donors, donations>>

Reqs == {1, 2}
UserEmail == "student@mmmut.ac.in"
SuperAdminEmail == "superadmin@mmmut.ac.in"
Emails == {UserEmail, SuperAdminEmail}

Null == [t |-> "null", v |-> <<>>]

\* Model.findOne({ email }): the first match in natural order, or null
FindOne(coll, email) ==
  LET hits == { i \in DOMAIN coll : coll[i].email = email }
  IN  IF hits = {} THEN Null
      ELSE coll[CHOOSE i \in hits : \A j \in hits : i <= j]

\* whether a document with this _id is (still) in the collection
HasId(coll, id) == \E i \in DOMAIN coll : coll[i]._id = id

\* doc.save() of a loaded document: updateOne({_id}, {$set/$unset: the modified paths})
UpdatePaths(coll, doc, paths) ==
  [ i \in DOMAIN coll |->
      IF coll[i]._id = doc._id
      THEN [ f \in DOMAIN coll[i] |-> IF f \in paths THEN doc[f] ELSE coll[i][f] ]
      ELSE coll[i] ]

\* Model.findByIdAndDelete(id)
DeleteById(coll, id) == SelectSeq(coll, LAMBDA d : d._id # id)

IdleReq ==
  [pc |-> "idle", op |-> "", email |-> "", otp |-> Undefined, doc |-> Null,
   isNew |-> FALSE, gen |-> 0]

NoResponse ==
  [op |-> "", email |-> "", otp |-> Undefined, status |-> 0, message |-> "",
   token |-> FALSE, gen |-> 0, before |-> Null, after |-> Null]

\* the values a client may send as the otp field of a request body
Candidates ==
  { Str(NumberToString(FloorAffine(100000, rnd, 900000))) : rnd \in MathRandom }
    \cup { Num(100000) }

\* history: the index in issued of the challenge stored last on document id, 0 if none
LastIssued(id) ==
  LET own == { g \in DOMAIN issued : issued[g].doc = id }
  IN  IF own = {} THEN 0 ELSE CHOOSE g \in own : \A h \in own : h <= g

\* history: generateOTP returned code at the instant now and a save stores the
\* challenge it left on doc; the challenge stored before on doc is superseded
Issue(kind, doc, code) ==
  Append([ g \in DOMAIN issued |->
             IF issued[g].doc = doc._id THEN [issued[g] EXCEPT !.live = FALSE] ELSE issued[g] ],
         [kind |-> kind, doc |-> doc._id, code |-> code, at |-> now,
          expiresAt |-> doc.otp.expiresAt, live |-> TRUE, accepted |-> 0, tokens |-> 0])

\* history: the stored challenge of document id is cleared or deleted
Retire(id) ==
  [ g \in DOMAIN issued |->
      IF issued[g].doc = id THEN [issued[g] EXCEPT !.live = FALSE] ELSE issued[g] ]

\* history: a request that loaded challenge g is answered with success
Accept(hist, g, withToken) ==
  IF g = 0 THEN hist
  ELSE [hist EXCEPT ![g].accepted = @ + 1,
                    ![g].tokens = @ + (IF withToken THEN 1 ELSE 0)]

\* res.status(status).json({ message, token? }): the handler of request rq on slot r ends
Respond(r, rq, status, message, token, after) ==
  /\ last' = [op |-> rq.op, email |-> rq.email, otp |-> rq.otp,
              status |-> status, message |-> message, token |-> token,
              gen |-> rq.gen, before |-> rq.doc, after |-> after]
  /\ req' = [req EXCEPT ![r] = IdleReq]

\* the request a client sends
Request(op, email, otp) == [IdleReq EXCEPT !.op = op, !.email = email, !.otp = otp]

\* the handler of slot r stands at step pc of route op
At(r, op, pc) == req[r].op = op /\ req[r].pc = pc

\* a request for collection coll arrives and takes the first free slot (the
\* slots are interchangeable).  The User routes and the AdminRequest routes
\* write disjoint collections and only read Admin, so a behaviour exercises
\* the routes of one of them.
Free(r, coll) ==
  /\ realm = coll
  /\ nreq < MaxRequests
  /\ req[r].pc = "idle"
  /\ \A q \in Reqs : q < r => req[q].pc # "idle"

MainInit ==
  /\ now = 0
  /\ users = <<>>
  /\ adminRequests = <<>>
  /\ admins = << [_id |-> 1, email |-> SuperAdminEmail, role |-> "main"] >>
  /\ nextId = 2
  /\ nreq = 0
  /\ req = [r \in Reqs |-> IdleReq]
  /\ last = NoResponse
  /\ issued = <<>>
  /\ realm \in {"users", "adminRequests"}
  /\ donors = <<>>
  /\ donations = <<>>

(***************************************************************************)
(* routes/userRoutes.js                                                    *)
(***************************************************************************)
\* POST /signup, to the two findOne awaits
Signup_Find(r, email) ==
  LET rq == Request("signup", email, Undefined)
  IN  /\ Free(r, "users")
      /\ nreq' = nreq + 1
      /\ IF FindOne(users, email) # Null
         THEN Respond(r, rq, 400, "User already exists with this email", FALSE, Null)
         ELSE IF FindOne(admins, email) # Null
         THEN Respond(r, rq, 400, "This email is already registered as admin", FALSE, Null)
         ELSE req' = [req EXCEPT ![r] = [rq EXCEPT !.pc = "save"]] /\ UNCHANGED last
      /\ UNCHANGED <<now, users, adminRequests, admins, nextId, issued, realm, unit, guard, donors, donations>>

\* POST /signup: new User, generateOTP, await user.save() (email is a unique index)
Signup_Save(r, rnd) ==
  LET user == [_id |-> nextId, email |-> req[r].email, verified |-> FALSE, otp |-> Undefined]
      g == User_generateOTP(user, rnd, now)
  IN  /\ At(r, "signup", "save")
      /\ IF FindOne(users, req[r].email) # Null
         THEN /\ Respond(r, req[r], 500, "Registration failed", FALSE, Null)
              /\ UNCHANGED <<users, issued>>
         ELSE /\ users' = Append(users, g.self)
              /\ issued' = Issue("user", g.self, g.ret)
              /\ req' = [req EXCEPT ![r].pc = "email", ![r].doc = g.self,
                                    ![r].gen = Len(issued) + 1]
              /\ UNCHANGED last
      /\ nextId' = nextId + 1
      /\ UNCHANGED <<now, adminRequests, admins, nreq, realm, unit, guard, donors, donations>>

\* POST /signup: await sendOTPEmail; on failure the user is deleted again
Signup_Email(r, emailSent) ==
  /\ At(r, "signup", "email")
  /\ IF emailSent
     THEN /\ Respond(r, req[r], 201, "User registered successfully. Please verify your email.",
                     FALSE, Null)
          /\ UNCHANGED <<users, issued>>
     ELSE /\ users' = DeleteById(users, req[r].doc._id)
          /\ issued' = Retire(req[r].doc._id)
          /\ Respond(r, req[r], 500, "Failed to send verification email", FALSE, Null)
  /\ UNCHANGED <<now, adminRequests, admins, nextId, nreq, realm, unit, guard, donors, donations>>

\* POST /verify-otp, to await User.findOne({ email })
VerifyOtp_Find(r, email, otp) ==
  LET rq == Request("verify-otp", email, otp)
      user == FindOne(users, email)
  IN  /\ Free(r, "users")
      /\ nreq' = nreq + 1
      /\ IF user = Null
         THEN Respond(r, rq, 404, "User not found", FALSE, Null)
         ELSE /\ req' = [req EXCEPT ![r] = [rq EXCEPT !.pc = "verify", !.doc = user,
                           !.gen = IF user.otp = Undefined THEN 0 ELSE LastIssued(user._id)]]
              /\ UNCHANGED last
      /\ UNCHANGED <<now, users, adminRequests, admins, nextId, issued, realm, unit, guard, donors, donations>>

\* POST /verify-otp without the line user.otp = undefined
VerifyOtp_Save_KeepsChallenge(r) ==
  LET v == User_verifyOTP(req[r].doc, req[r].otp, now)
      user == [v.self EXCEPT !.verified = TRUE]
  IN  /\ At(r, "verify-otp", "verify")
      /\ IF v.threw
         THEN /\ Respond(r, req[r], 500, "OTP verification failed", FALSE, v.self)
              /\ UNCHANGED <<users, issued>>
         ELSE IF ~v.ret
         THEN /\ Respond(r, req[r], 400, "Invalid or expired OTP", FALSE, v.self)
              /\ UNCHANGED <<users, issued>>
         ELSE IF ~HasId(users, user._id)
         THEN /\ Respond(r, req[r], 500, "OTP verification failed", FALSE, v.self)
              /\ UNCHANGED <<users, issued>>
         ELSE /\ users' = UpdatePaths(users, user, {"verified"})
              /\ issued' = Accept(issued, req[r].gen, FALSE)
              /\ Respond(r, req[r], 200, "Email verified successfully", FALSE, v.self)
      /\ UNCHANGED <<now, adminRequests, admins, nextId, nreq, realm, unit, guard, donors, donations>>

\* POST /verify-otp: verifyOTP on the loaded user, then verified = true,
\* otp = undefined and await user.save()
VerifyOtp_Save(r) ==
  LET v == User_verifyOTP(req[r].doc, req[r].otp, now)
      user == [v.self EXCEPT !.verified = TRUE, !.otp = Undefined]
  IN  /\ At(r, "verify-otp", "verify")
      /\ IF v.threw
         THEN /\ Respond(r, req[r], 500, "OTP verification failed", FALSE, v.self)
              /\ UNCHANGED <<users, issued>>
         ELSE IF ~v.ret
         THEN /\ Respond(r, req[r], 400, "Invalid or expired OTP", FALSE, v.self)
              /\ UNCHANGED <<users, issued>>
         ELSE IF ~HasId(users, user._id)
         THEN /\ Respond(r, req[r], 500, "OTP verification failed", FALSE, v.self)
              /\ UNCHANGED <<users, issued>>
         ELSE /\ users' = UpdatePaths(users, user, {"verified", "otp"})
              /\ issued' = Accept(Retire(user._id), req[r].gen, FALSE)
              /\ Respond(r, req[r], 200, "Email verified successfully", FALSE, v.self)
      /\ UNCHANGED <<now, adminRequests, admins, nextId, nreq, realm, unit, guard, donors, donations>>

\* POST /login-otp, to await User.findOne({ email })
LoginOtp_Find(r, email, otp) ==
  LET rq == Request("login-otp", email, otp)
      user == FindOne(users, email)
  IN  /\ Free(r, "users")
      /\ nreq' = nreq + 1
      /\ IF user = Null
         THEN Respond(r, rq, 404, "User not found", FALSE, Null)
         ELSE /\ req' = [req EXCEPT ![r] = [rq EXCEPT !.pc = "verify", !.doc = user,
                           !.gen = IF user.otp = Undefined THEN 0 ELSE LastIssued(user._id)]]
              /\ UNCHANGED last
      /\ UNCHANGED <<now, users, adminRequests, admins, nextId, issued, realm, unit, guard, donors, donations>>

\* POST /login-otp: verifyOTP, verified = true, otp = undefined, await
\* user.save(), then jwt.sign and the token in the response
LoginOtp_Save(r) ==
  LET v == User_verifyOTP(req[r].doc, req[r].otp, now)
      user == [v.self EXCEPT !.verified = TRUE, !.otp = Undefined]
  IN  /\ At(r, "login-otp", "verify")
      /\ IF v.threw
         THEN /\ Respond(r, req[r], 500, "OTP login failed", FALSE, v.self)
              /\ UNCHANGED <<users, issued>>
         ELSE IF ~v.ret
         THEN /\ Respond(r, req[r], 400, "Invalid or expired OTP", FALSE, v.self)
              /\ UNCHANGED <<users, issued>>
         ELSE IF ~HasId(users, user._id)
         THEN /\ Respond(r, req[r], 500, "OTP login failed", FALSE, v.self)
              /\ UNCHANGED <<users, issued>>
         ELSE /\ users' = UpdatePaths(users, user, {"verified", "otp"})
              /\ issued' = Accept(Retire(user._id), req[r].gen, TRUE)
              /\ Respond(r, req[r], 200, "Login successful", TRUE, v.self)
      /\ UNCHANGED <<now, adminRequests, admins, nextId, nreq, realm, unit, guard, donors, donations>>

\* POST /send-login-otp, to await User.findOne({ email })
SendLoginOtp_Find(r, email) ==
  LET rq == Request("send-login-otp", email, Undefined)
      user == FindOne(users, email)
  IN  /\ Free(r, "users")
      /\ nreq' = nreq + 1
      /\ IF user = Null
         THEN Respond(r, rq, 404, "User not found", FALSE, Null)
         ELSE /\ req' = [req EXCEPT ![r] = [rq EXCEPT !.pc = "generate", !.doc = user]]
              /\ UNCHANGED last
      /\ UNCHANGED <<now, users, adminRequests, admins, nextId, issued, realm, unit, guard, donors, donations>>

\* POST /send-login-otp without await user.save(): the new code is mailed,
\* the stored challenge stays
SendLoginOtp_Save_NoSave(r, rnd, emailSent) ==
  LET g == User_generateOTP(req[r].doc, rnd, now)
      rq == [req[r] EXCEPT !.doc = g.self, !.gen = Len(issued) + 1]
  IN  /\ At(r, "send-login-otp", "generate")
      /\ issued' = Issue("user", g.self, g.ret)
      /\ IF emailSent
         THEN Respond(r, rq, 200, "OTP sent successfully", FALSE, Null)
         ELSE Respond(r, rq, 500, "Failed to send OTP email", FALSE, Null)
      /\ UNCHANGED <<now, users, adminRequests, admins, nextId, nreq, realm, unit, guard, donors, donations>>

\* POST /send-login-otp: generateOTP, await user.save(), await sendOTPEmail.
\* Nothing is written after the save, so the save and the response are one step.
SendLoginOtp_Save(r, rnd, emailSent) ==
  LET g == User_generateOTP(req[r].doc, rnd, now)
      rq == [req[r] EXCEPT !.doc = g.self, !.gen = Len(issued) + 1]
  IN  /\ At(r, "send-login-otp", "generate")
      /\ IF ~HasId(users, g.self._id)
         THEN /\ Respond(r, req[r], 500, "Failed to send OTP", FALSE, Null)
              /\ UNCHANGED <<users, issued>>
         ELSE /\ users' = UpdatePaths(users, g.self, {"otp"})
              /\ issued' = Issue("user", g.self, g.ret)
              /\ IF emailSent
                 THEN Respond(r, rq, 200, "OTP sent successfully", FALSE, Null)
                 ELSE Respond(r, rq, 500, "Failed to send OTP email", FALSE, Null)
      /\ UNCHANGED <<now, adminRequests, admins, nextId, nreq, realm, unit, guard, donors, donations>>

(***************************************************************************)
(* routes/adminRequestRoutes.js                                            *)
(***************************************************************************)
\* new AdminRequest({ email }): status and emailVerified take their defaults,
\* the fields of the submit step and of the review are absent
NewAdminRequest(id, email) ==
  [_id |-> id, email |-> email, emailVerified |-> FALSE, otp |-> Undefined,
   status |-> "pending", name |-> Undefined, rollNo |-> Undefined, branch |-> Undefined,
   year |-> Undefined, phone |-> Undefined, password |-> Undefined,
   reviewedBy |-> Undefined, reviewedAt |-> Undefined]

\* POST /send-otp, to the awaits of Admin.findOne and AdminRequest.findOne;
\* an email without a request gets a new AdminRequest({ email })
AdminRequest_SendOtp_Find(r, email) ==
  LET rq == Request("admin-request/send-otp", email, Undefined)
      found == FindOne(adminRequests, email)
      adminRequest == IF found # Null THEN found
                      ELSE NewAdminRequest(nextId, email)
  IN  /\ Free(r, "adminRequests")
      /\ nreq' = nreq + 1
      /\ IF FindOne(admins, email) # Null
         THEN /\ Respond(r, rq, 400, "This email is already registered as admin", FALSE, Null)
              /\ UNCHANGED nextId
         ELSE /\ req' = [req EXCEPT ![r] = [rq EXCEPT !.pc = "generate", !.doc = adminRequest,
                                                      !.isNew = (found = Null)]]
              /\ nextId' = IF found = Null THEN nextId + 1 ELSE nextId
              /\ UNCHANGED last
      /\ UNCHANGED <<now, users, adminRequests, admins, issued, realm, unit, guard, donors, donations>>

\* POST /send-otp: generateOTP, await adminRequest.save() (an insert for a new
\* document; email is not unique in this collection), await sendOTPEmail.
\* Nothing is written after the save, so the save and the response are one step.
AdminRequest_SendOtp_Save(r, rnd, emailSent) ==
  LET g == AdminRequest_generateOTP(req[r].doc, rnd, now)
      rq == [req[r] EXCEPT !.doc = g.self, !.gen = Len(issued) + 1]
  IN  /\ At(r, "admin-request/send-otp", "generate")
      /\ IF ~req[r].isNew /\ ~HasId(adminRequests, g.self._id)
         THEN /\ Respond(r, req[r], 500, "Failed to send OTP", FALSE, Null)
              /\ UNCHANGED <<adminRequests, issued>>
         ELSE /\ adminRequests' = IF req[r].isNew THEN Append(adminRequests, g.self)
                                  ELSE UpdatePaths(adminRequests, g.self, {"otp"})
              /\ issued' = Issue("adminRequest", g.self, g.ret)
              /\ IF emailSent
                 THEN Respond(r, rq, 200, "OTP sent successfully", FALSE, Null)
                 ELSE Respond(r, rq, 500, "Failed to send verification email", FALSE, Null)
      /\ UNCHANGED <<now, users, admins, nextId, nreq, realm, unit, guard, donors, donations>>

\* POST /verify-otp, to await AdminRequest.findOne({ email })
AdminRequest_VerifyOtp_Find(r, email, otp) ==
  LET rq == Request("admin-request/verify-otp", email, otp)
      adminRequest == FindOne(adminRequests, email)
  IN  /\ Free(r, "adminRequests")
      /\ nreq' = nreq + 1
      /\ IF adminRequest = Null
         THEN Respond(r, rq, 404, "Admin request not found", FALSE, Null)
         ELSE /\ req' = [req EXCEPT ![r] = [rq EXCEPT !.pc = "verify", !.doc = adminRequest,
                           !.gen = IF adminRequest.otp = Undefined THEN 0
                                   ELSE LastIssued(adminRequest._id)]]
              /\ UNCHANGED last
      /\ UNCHANGED <<now, users, adminRequests, admins, nextId, issued, realm, unit, guard, donors, donations>>

\* POST /verify-otp: verifyOTP, emailVerified = true, otp = undefined,
\* await adminRequest.save()
AdminRequest_VerifyOtp_Save(r) ==
  LET v == AdminRequest_verifyOTP(req[r].doc, req[r].otp, now)
      adminRequest == [v.self EXCEPT !.emailVerified = TRUE, !.otp = Undefined]
  IN  /\ At(r, "admin-request/verify-otp", "verify")
      /\ IF v.threw
         THEN /\ Respond(r, req[r], 500, "OTP verification failed", FALSE, v.self)
              /\ UNCHANGED <<adminRequests, issued>>
         ELSE IF ~v.ret
         THEN /\ Respond(r, req[r], 400, "Invalid or expired OTP", FALSE, v.self)
              /\ UNCHANGED <<adminRequests, issued>>
         ELSE IF ~HasId(adminRequests, adminRequest._id)
         THEN /\ Respond(r, req[r], 500, "OTP verification failed", FALSE, v.self)
              /\ UNCHANGED <<adminRequests, issued>>
         ELSE /\ adminRequests' = UpdatePaths(adminRequests, adminRequest, {"emailVerified", "otp"})
              /\ issued' = Accept(Retire(adminRequest._id), req[r].gen, FALSE)
              /\ Respond(r, req[r], 200, "Email verified successfully", FALSE, v.self)
      /\ UNCHANGED <<now, users, admins, nextId, nreq, realm, unit, guard, donors, donations>>

(***************************************************************************)
(* The clock.  It moves forward through the instants at which a challenge *)
(* stored at 0 is new, at its last valid instant, and one millisecond past *)
(* it (where a challenge stored at OTP_TTL_MS is one millisecond old).     *)
(***************************************************************************)
Instants == {0, OTP_TTL_MS, OTP_TTL_MS + 1}

Tick(t) ==
  /\ t > now
  /\ now' = t
  /\ UNCHANGED <<users, adminRequests, admins, nextId, nreq, req, last, issued, realm, unit, guard, donors, donations>>

\* unit and guard while the routes run
UnitIdle == [pc |-> "idle"]
GuardIdle == [pc |-> "idle"]

Init == MainInit /\ unit = UnitIdle /\ guard = GuardIdle

Next ==
  \/ \E t \in Instants : Tick(t)
  \/ \E r \in Reqs, email \in Emails : Signup_Find(r, email)
  \/ \E r \in Reqs, rnd \in MathRandom : Signup_Save(r, rnd)
  \/ \E r \in Reqs, emailSent \in BOOLEAN : Signup_Email(r, emailSent)
  \/ \E r \in Reqs, email \in Emails, otp \in Candidates : VerifyOtp_Find(r, email, otp)
  \/ \E r \in Reqs : VerifyOtp_Save(r)
  \/ \E r \in Reqs, email \in Emails, otp \in Candidates : LoginOtp_Find(r, email, otp)
  \/ \E r \in Reqs : LoginOtp_Save(r)
  \/ \E r \in Reqs, email \in Emails : SendLoginOtp_Find(r, email)
  \/ \E r \in Reqs, rnd \in MathRandom, emailSent \in BOOLEAN : SendLoginOtp_Save(r, rnd, emailSent)
  \/ \E r \in Reqs, email \in Emails : AdminRequest_SendOtp_Find(r, email)
  \/ \E r \in Reqs, rnd \in MathRandom, emailSent \in BOOLEAN : AdminRequest_SendOtp_Save(r, rnd, emailSent)
  \/ \E r \in Reqs, email \in Emails, otp \in Candidates : AdminRequest_VerifyOtp_Find(r, email, otp)
  \/ \E r \in Reqs : AdminRequest_VerifyOtp_Save(r)

Spec == Init /\ [][Next]_vars

(***************************************************************************)
(* Properties of the OTP lifecycle.                                        *)
(***************************************************************************)
VerifyOps == {"verify-otp", "login-otp", "admin-request/verify-otp"}

\* the stored document with this _id, in either collection, as a set
Stored(id) ==
  { users[i] : i \in { j \in DOMAIN users : users[j]._id = id } }
    \cup { adminRequests[i] : i \in { j \in DOMAIN adminRequests : adminRequests[j]._id = id } }

\* every stored document with the collection it is in
StoredDocs ==
  { [kind |-> "user", doc |-> users[i]] : i \in DOMAIN users }
    \cup { [kind |-> "adminRequest", doc |-> adminRequests[i]] : i \in DOMAIN adminRequests }

\* doc.verifyOTP(candidate) evaluated at instant t, by the method of doc's model
VerifyAt(kind, doc, candidate, t) ==
  IF kind = "user" THEN User_verifyOTP(doc, candidate, t)
  ELSE AdminRequest_verifyOTP(doc, candidate, t)

\* the number a string of decimal digits denotes
RECURSIVE DigitsValue(_)
DigitsValue(digits) ==
  IF digits = <<>> THEN 0
  ELSE 10 * DigitsValue(SubSeq(digits, 1, Len(digits) - 1)) + digits[Len(digits)]

\* C1: while the challenge that generateOTP stored at instant t is the
\* document's challenge (no later generate, no clear), verifyOTP with the
\* code generateOTP returned yields true at every instant from t to
\* t + 5 minutes, for users and for admin requests.
C1_CodeVerifiesWithinFiveMinutes ==
  \A g \in DOMAIN issued :
    issued[g].live /\ issued[g].at <= now /\ now <= issued[g].at + 300000
      => /\ Stored(issued[g].doc) # {}
         /\ \A doc \in Stored(issued[g].doc) :
              LET v == VerifyAt(issued[g].kind, doc, issued[g].code, now)
              IN  ~v.threw /\ v.ret = TRUE

\* a verification request with the issued code has just been accepted at the
\* last instant of the code's five minutes
C1_Witness ==
  /\ last.op \in VerifyOps
  /\ last.status = 200
  /\ last.gen # 0
  /\ last.otp = issued[last.gen].code
  /\ now = issued[last.gen].at + 300000

\* C2: verifyOTP with the stored code yields false at every instant after
\* expiresAt and still yields true at the instant expiresAt itself.
C2_ExpiryIsStrict ==
  \A d \in StoredDocs :
    Truthy(d.doc.otp) =>
      LET v == VerifyAt(d.kind, d.doc, d.doc.otp.code, now)
      IN  /\ now > d.doc.otp.expiresAt.v[1] => v.ret = FALSE
          /\ now = d.doc.otp.expiresAt.v[1] => v.ret = TRUE

\* a verification request with the stored code has just been rejected one
\* millisecond after expiresAt, and the challenge is still stored
C2_Witness ==
  /\ last.op \in VerifyOps
  /\ last.status = 400
  /\ last.gen # 0
  /\ issued[last.gen].live
  /\ last.otp = issued[last.gen].code
  /\ now = issued[last.gen].expiresAt.v[1] + 1

\* C4: every code generateOTP returns is a string of 6 decimal digits, the
\* first not 0, with a value from 100000 to 999999, and the challenge stored
\* with it carries that code and expiresAt = generation time + 300 seconds.
C4_CodeShapeAndExpiry ==
  \A g \in DOMAIN issued :
    LET c == issued[g].code
    IN  /\ c.t = "string"
        /\ Len(c.v) = 6
        /\ \A i \in 1..Len(c.v) : c.v[i] \in 0..9
        /\ c.v[1] # 0
        /\ DigitsValue(c.v) >= 100000 /\ DigitsValue(c.v) <= 999999
        /\ issued[g].expiresAt = Date(issued[g].at + 300 * 1000)
        /\ issued[g].live =>
             \A doc \in Stored(issued[g].doc) :
               doc.otp = OtpObject(c, Date(issued[g].at + 300 * 1000))

\* codes from the least and from the greatest draw of Math.random() have been
\* issued, one of them after the clock has advanced
C4_Witness ==
  /\ \E g \in DOMAIN issued : DigitsValue(issued[g].code.v) = 100000
  /\ \E g \in DOMAIN issued : DigitsValue(issued[g].code.v) > 999000 /\ issued[g].at > 0

\* C5: a document holds one challenge, the one stored last: once a second
\* generateOTP has been saved (signup, send-login-otp, admin-request
\* send-otp), verifyOTP rejects every code issued before for that document
\* that differs from the new one, also within that older code's own 5 minutes.
C5_NewChallengeReplacesOld ==
  \A g \in DOMAIN issued :
    issued[g].live =>
      \A doc \in Stored(issued[g].doc) :
        /\ doc.otp = OtpObject(issued[g].code, issued[g].expiresAt)
        /\ \A h \in DOMAIN issued :
             /\ h < g
             /\ issued[h].doc = issued[g].doc
             /\ issued[h].code # issued[g].code
             /\ now <= issued[h].expiresAt.v[1]
             => VerifyAt(issued[g].kind, doc, issued[h].code, now).ret = FALSE

\* a verification request carrying the older code, still within its 5
\* minutes and never accepted, has just been rejected against the newer challenge
C5_Witness ==
  /\ last.op \in VerifyOps
  /\ last.status = 400
  /\ last.gen # 0
  /\ issued[last.gen].live
  /\ \E h \in DOMAIN issued :
       /\ h < last.gen
       /\ issued[h].doc = issued[last.gen].doc
       /\ issued[h].code # issued[last.gen].code
       /\ issued[h].accepted = 0
       /\ last.otp = issued[h].code
       /\ now <= issued[h].expiresAt.v[1]

\* C6: verifyOTP changes nothing: whatever it returns, the document it was
\* called on (challenge, verified / emailVerified flag) is after the call as
\* it was loaded.
C6_VerifyLeavesDocument ==
  last.op \in VerifyOps /\ last.before # Null => last.after = last.before

\* verifyOTP has returned true on a document holding a challenge, and the
\* document it left still holds that challenge
C6_Witness ==
  /\ last.op \in VerifyOps
  /\ last.status = 200
  /\ Truthy(last.before.otp)
  /\ last.after.otp = last.before.otp

\* C7: a verification request that succeeds leaves the document without a
\* challenge and with its flag set; a verification request that loads a
\* document without a challenge is rejected with 'Invalid or expired OTP',
\* whatever code it carries; a rejected verification request leaves both
\* collections as they were.
C7_ChallengeIsConsumed ==
  [][ \A r \in Reqs :
        (req[r].pc = "verify" /\ req'[r].pc = "idle") =>
          /\ last'.status = 200 =>
               \A doc \in { d \in StoredDocs' : d.doc._id = req[r].doc._id } :
                 /\ doc.doc.otp = Undefined
                 /\ IF doc.kind = "user" THEN doc.doc.verified ELSE doc.doc.emailVerified
          /\ req[r].doc.otp = Undefined =>
               last'.status = 400 /\ last'.message = "Invalid or expired OTP"
          /\ last'.status = 400 =>
               users' = users /\ adminRequests' = adminRequests ]_vars

\* the code of a challenge that was accepted has just been presented again,
\* within its 5 minutes, and rejected
C7_Witness ==
  /\ last.op \in VerifyOps
  /\ last.status = 400
  /\ last.message = "Invalid or expired OTP"
  /\ last.before.otp = Undefined
  /\ \E g \in DOMAIN issued :
       /\ issued[g].doc = last.before._id
       /\ issued[g].accepted = 1
       /\ last.otp = issued[g].code
       /\ now <= issued[g].expiresAt.v[1]

\* C8: no challenge issued to a user is accepted twice: of the /verify-otp and
\* /login-otp requests that loaded it, also concurrently, at most one is
\* answered with success, and at most one login token is issued for it.
C8_CodeAcceptedAtMostOnce ==
  \A g \in DOMAIN issued :
    issued[g].kind = "user" => issued[g].accepted <= 1 /\ issued[g].tokens <= 1

(***************************************************************************)
(* UnitSpec: verifyOTP called directly on a document, as a unit test of    *)
(* the model method does.  The document may hold any challenge the schema  *)
(* { code: String, expiresAt: Date } admits, both fields being optional,   *)
(* and the candidate is any value a JSON body may carry in its otp field.  *)
(***************************************************************************)
UnitChallenges ==
  { Undefined }
    \cup { OtpObject(code, expiresAt) :
             code \in { Undefined, Str(<<>>), Str(<<1, 0, 0, 0, 0, 0>>), Str(<<9, 9, 9, 1, 0, 0>>) },
             expiresAt \in { Undefined, Date(OTP_TTL_MS) } }

UnitCandidates ==
  { Undefined, Null, Str(<<>>), Str(<<1, 0, 0, 0, 0, 0>>), Str(<<9, 9, 9, 1, 0, 0>>), Num(100000) }

UnitDocument(kind, otp) ==
  IF kind = "user"
  THEN [_id |-> 2, email |-> UserEmail, verified |-> FALSE, otp |-> otp]
  ELSE [_id |-> 2, email |-> UserEmail, emailVerified |-> FALSE, otp |-> otp]

UnitInit ==
  /\ MainInit
  /\ realm = "users"
  /\ guard = GuardIdle
  /\ \E kind \in {"user", "adminRequest"}, otp \in UnitChallenges,
        candidateOTP \in UnitCandidates, nowMs \in Instants :
       unit = [pc |-> "call", kind |-> kind, self |-> UnitDocument(kind, otp),
               candidateOTP |-> candidateOTP, nowMs |-> nowMs]

\* self.verifyOTP(candidateOTP), with new Date() = nowMs
Unit_verifyOTP ==
  /\ unit.pc = "call"
  /\ unit' = [pc |-> "returned", kind |-> unit.kind, self |-> unit.self,
              candidateOTP |-> unit.candidateOTP, nowMs |-> unit.nowMs,
              out |-> VerifyAt(unit.kind, unit.self, unit.candidateOTP, unit.nowMs)]
  /\ UNCHANGED <<mainVars, guard>>

UnitNext == Unit_verifyOTP

UnitSpec == UnitInit /\ [][UnitNext]_vars

\* C3: verifyOTP never raises, and it returns false whenever the document
\* has no challenge, the challenge has no code or no expiresAt, or the
\* candidate (absent and malformed ones included) is not the stored code.
C3_VerifyFailsClosed ==
  unit.pc = "returned" =>
    /\ ~unit.out.threw
    /\ unit.out.ret \in BOOLEAN
    /\ \/ unit.self.otp = Undefined
       \/ unit.self.otp.code \in { Undefined, Str(<<>>) }
       \/ unit.self.otp.expiresAt = Undefined
       \/ unit.candidateOTP # unit.self.otp.code
       => unit.out.ret = FALSE

\* verifyOTP has returned false for an absent candidate on a document without
\* a challenge
C3_Witness ==
  /\ unit.pc = "returned"
  /\ unit.self.otp = Undefined
  /\ unit.candidateOTP = Undefined
  /\ unit.out.ret = FALSE

(***************************************************************************)
(* The middleware of a guarded route,                                      *)
(*   router.METHOD(path, authenticate, authorize(...roles), handler).      *)
(* An outcome is either next() or the response that ends the request.      *)
(***************************************************************************)
CallNext(rq) == [next |-> TRUE, status |-> 0, message |-> "", req |-> rq]
Deny(status, message, rq) == [next |-> FALSE, status |-> status, message |-> message, req |-> rq]

\* Model.findById(id)
FindById(coll, id) ==
  IF \E i \in DOMAIN coll : coll[i]._id = id
  THEN coll[CHOOSE i \in DOMAIN coll : coll[i]._id = id]
  ELSE Null

\* authenticate that decodes the token without verifying its signature
authenticate_DecodesWithoutVerifying(rq, token, userColl, adminColl) ==
  IF token.kind = "none" THEN Deny(401, "Access denied. No token provided.", rq)
  ELSE LET user == IF token.type = "user" THEN FindById(userColl, token.id)
                   ELSE IF token.type = "admin" THEN FindById(adminColl, token.id)
                   ELSE Null
       IN  IF user = Null THEN Deny(401, "Token is not valid.", rq)
           ELSE CallNext([rq EXCEPT !.user = user, !.userType = token.type])

\* authenticate: token is the Authorization header after jwt.verify, one of
\* [kind |-> "none"] (no header), [kind |-> "invalid"] (jwt.verify throws) and
\* [kind |-> "valid", id, type] (the decoded claims)
authenticate(rq, token, userColl, adminColl) ==
  IF token.kind = "none" THEN Deny(401, "Access denied. No token provided.", rq)
  ELSE IF token.kind = "invalid" THEN Deny(401, "Token is not valid.", rq)
  ELSE LET user == IF token.type = "user" THEN FindById(userColl, token.id)
                   ELSE IF token.type = "admin" THEN FindById(adminColl, token.id)
                   ELSE Null
       IN  IF user = Null THEN Deny(401, "Token is not valid.", rq)
           ELSE CallNext([rq EXCEPT !.user = user, !.userType = token.type])

\* authorize with the main-admin shortcut placed after the test for 'admin'
authorize_ShortcutAfterAdminTest(roles, rq) ==
  IF rq.userType = "user"
  THEN IF "user" \notin roles
       THEN Deny(403, "Access denied. Insufficient permissions.", rq)
       ELSE CallNext(rq)
  ELSE IF rq.userType = "admin"
  THEN IF "admin" \notin roles
       THEN Deny(403, "Access denied. Insufficient permissions.", rq)
       ELSE IF rq.user.role = "main"
       THEN CallNext(rq)
       ELSE IF "superadmin" \in roles /\ rq.user.role # "main"
       THEN Deny(403, "Access denied. Super admin privileges required.", rq)
       ELSE CallNext(rq)
  ELSE Deny(403, "Access denied. Invalid user type.", rq)

\* authorize that lets a user pass a route declaring any role at all
authorize_UserPassesAnyRole(roles, rq) ==
  IF rq.userType = "user"
  THEN IF roles = {}
       THEN Deny(403, "Access denied. Insufficient permissions.", rq)
       ELSE CallNext(rq)
  ELSE IF rq.userType = "admin"
  THEN IF rq.user.role = "main"
       THEN CallNext(rq)
       ELSE IF "admin" \notin roles
       THEN Deny(403, "Access denied. Insufficient permissions.", rq)
       ELSE IF "superadmin" \in roles /\ rq.user.role # "main"
       THEN Deny(403, "Access denied. Super admin privileges required.", rq)
       ELSE CallNext(rq)
  ELSE Deny(403, "Access denied. Invalid user type.", rq)

\* authorize without the test for the 'superadmin' token
authorize_IgnoresSuperadminToken(roles, rq) ==
  IF rq.userType = "user"
  THEN IF "user" \notin roles
       THEN Deny(403, "Access denied. Insufficient permissions.", rq)
       ELSE CallNext(rq)
  ELSE IF rq.userType = "admin"
  THEN IF rq.user.role = "main"
       THEN CallNext(rq)
       ELSE IF "admin" \notin roles
       THEN Deny(403, "Access denied. Insufficient permissions.", rq)
       ELSE CallNext(rq)
  ELSE Deny(403, "Access denied. Invalid user type.", rq)

\* authorize with the test for the 'superadmin' token ahead of the test for 'admin'
authorize_SuperadminTestFirst(roles, rq) ==
  IF rq.userType = "user"
  THEN IF "user" \notin roles
       THEN Deny(403, "Access denied. Insufficient permissions.", rq)
       ELSE CallNext(rq)
  ELSE IF rq.userType = "admin"
  THEN IF rq.user.role = "main"
       THEN CallNext(rq)
       ELSE IF "superadmin" \in roles /\ rq.user.role # "main"
       THEN Deny(403, "Access denied. Super admin privileges required.", rq)
       ELSE IF "admin" \notin roles
       THEN Deny(403, "Access denied. Insufficient permissions.", rq)
       ELSE CallNext(rq)
  ELSE Deny(403, "Access denied. Invalid user type.", rq)

\* authorize(...roles)(req, res, next); roles.includes(x) is x \in roles
authorize(roles, rq) ==
  IF rq.userType = "user"
  THEN IF "user" \notin roles
       THEN Deny(403, "Access denied. Insufficient permissions.", rq)
       ELSE CallNext(rq)
  ELSE IF rq.userType = "admin"
  THEN IF rq.user.role = "main"
       THEN CallNext(rq)
       ELSE IF "admin" \notin roles
       THEN Deny(403, "Access denied. Insufficient permissions.", rq)
       ELSE IF "superadmin" \in roles /\ rq.user.role # "main"
       THEN Deny(403, "Access denied. Super admin privileges required.", rq)
       ELSE CallNext(rq)
  ELSE Deny(403, "Access denied. Invalid user type.", rq)

(***************************************************************************)
(* GuardSpec: one request with any token passes the middleware of a route  *)
(* that declares any set of roles, on a database holding a verified user,  *)
(* the seeded super admin (role main) and an approved admin (role normal). *)
(***************************************************************************)
RoleTokens == {"user", "admin", "superadmin"}

GuardUsers == << [_id |-> 2, email |-> UserEmail, verified |-> TRUE, otp |-> Undefined] >>
GuardAdmins ==
  << [_id |-> 1, email |-> SuperAdminEmail, role |-> "main"],
     [_id |-> 3, email |-> "volunteer@mmmut.ac.in", role |-> "normal"] >>

\* the tokens a client may present: none, one that fails jwt.verify, and the
\* signed claims of every stored principal and of a removed one (_id 4),
\* each as type user and as type admin
GuardTokens ==
  { [kind |-> "none", id |-> 0, type |-> ""], [kind |-> "invalid", id |-> 0, type |-> ""] }
    \cup { [kind |-> "valid", id |-> id, type |-> type] : id \in 1..4, type \in {"user", "admin"} }

GuardInit ==
  /\ MainInit
  /\ realm = "users"
  /\ unit = UnitIdle
  /\ \E token \in GuardTokens, roles \in SUBSET RoleTokens :
       guard = [pc |-> "authenticate", token |-> token, roles |-> roles,
                userType |-> "", user |-> Null, status |-> 0, message |-> ""]

\* the outcome of a middleware moves the request on or ends it
GuardStep(out, onward) ==
  guard' = [out.req EXCEPT !.pc = IF out.next THEN onward ELSE "responded",
                           !.status = out.status, !.message = out.message]

Guard_authenticate ==
  /\ guard.pc = "authenticate"
  /\ GuardStep(authenticate(guard, guard.token, GuardUsers, GuardAdmins), "authorize")
  /\ UNCHANGED <<mainVars, unit>>

Guard_authorize ==
  /\ guard.pc = "authorize"
  /\ GuardStep(authorize(guard.roles, guard), "handler")
  /\ UNCHANGED <<mainVars, unit>>

GuardNext == Guard_authenticate \/ Guard_authorize

GuardSpec == GuardInit /\ [][GuardNext]_vars

\* authorize has decided the request: it reached the handler or got a 403
Authorized == guard.pc = "handler" \/ (guard.pc = "responded" /\ guard.status = 403)

\* C9: authorize lets a principal of kind user through to the handler if and
\* only if 'user' is among the roles the route declares, for every subset of
\* {user, admin, superadmin}.
C9_UserPermittedIffUserRole ==
  Authorized /\ guard.userType = "user" =>
    (guard.pc = "handler" <=> "user" \in guard.roles)

\* a user has been denied on a route that declares roles but not 'user'
C9_Witness ==
  /\ guard.pc = "responded"
  /\ guard.status = 403
  /\ guard.userType = "user"
  /\ guard.roles = {"admin", "superadmin"}

\* C10: authorize lets an admin with role main through to the handler
\* whatever roles the route declares, the empty set and {user} included.
C10_MainAdminAlwaysPermitted ==
  Authorized /\ guard.userType = "admin" /\ guard.user.role = "main" =>
    guard.pc = "handler"

\* the main admin has reached the handler of a route that declares no role
C10_Witness ==
  /\ guard.pc = "handler"
  /\ guard.userType = "admin"
  /\ guard.user.role = "main"
  /\ guard.roles = {}

\* C11: authorize lets an admin with role normal through to the handler if
\* and only if the route declares 'admin' and does not declare 'superadmin',
\* for every subset of {user, admin, superadmin}.
C11_NormalAdminNeedsAdminWithoutSuperadmin ==
  Authorized /\ guard.userType = "admin" /\ guard.user.role = "normal" =>
    (guard.pc = "handler" <=> ("admin" \in guard.roles /\ "superadmin" \notin guard.roles))

\* a normal admin has been denied on a route that declares admin and superadmin
C11_Witness ==
  /\ guard.pc = "responded"
  /\ guard.status = 403
  /\ guard.userType = "admin"
  /\ guard.user.role = "normal"
  /\ guard.roles = {"admin", "superadmin"}

(***************************************************************************)
(* AuthorizeSpec: authorize(...roles) called on any request object: every  *)
(* req.userType (the two kinds authenticate sets and one it never sets),   *)
(* every stored principal as req.user, every set of role tokens.           *)
(***************************************************************************)
AuthorizeKinds == {"user", "admin", "guest"}

AuthorizePrincipals(kind) ==
  IF kind = "admin" THEN { GuardAdmins[i] : i \in DOMAIN GuardAdmins }
  ELSE { GuardUsers[i] : i \in DOMAIN GuardUsers } \cup { GuardAdmins[i] : i \in DOMAIN GuardAdmins }

AuthorizeInit ==
  /\ MainInit
  /\ realm = "users"
  /\ unit = UnitIdle
  /\ \E kind \in AuthorizeKinds, roles \in SUBSET RoleTokens :
       \E user \in AuthorizePrincipals(kind) :
         guard = [pc |-> "authorize",
                  token |-> [kind |-> "valid", id |-> user._id, type |-> kind],
                  roles |-> roles, userType |-> kind, user |-> user,
                  status |-> 0, message |-> ""]

AuthorizeNext == Guard_authorize

AuthorizeSpec == AuthorizeInit /\ [][AuthorizeNext]_vars

NormalAdmin == guard.userType = "admin" /\ guard.user.role = "normal"
Denied == guard.pc = "responded"

\* C12 as stated: authorize ends in next() or in a 403; a kind other than
\* user and admin is denied; a normal admin on a route that declares
\* 'superadmin' is denied with 'Super admin privileges required'; every other
\* denial of a user or an admin says 'Insufficient permissions'.
C12_DenialsAreTagged ==
  guard.pc # "authorize" =>
    /\ guard.pc = "handler" \/ (Denied /\ guard.status = 403)
    /\ guard.userType \notin {"user", "admin"} => Denied
    /\ Denied /\ guard.userType \in {"user", "admin"} =>
         guard.message =
           IF NormalAdmin /\ "superadmin" \in guard.roles
           THEN "Access denied. Super admin privileges required."
           ELSE "Access denied. Insufficient permissions."

\* C12 amended: the same, with 'Super admin privileges required' exactly when
\* a normal admin meets a route that declares both 'admin' and 'superadmin'.
C12_DenialsAreTaggedWhenAdminDeclared ==
  guard.pc # "authorize" =>
    /\ guard.pc = "handler" \/ (Denied /\ guard.status = 403)
    /\ guard.userType \notin {"user", "admin"} => Denied
    /\ Denied /\ guard.userType \in {"user", "admin"} =>
         guard.message =
           IF NormalAdmin /\ {"admin", "superadmin"} \subseteq guard.roles
           THEN "Access denied. Super admin privileges required."
           ELSE "Access denied. Insufficient permissions."

\* a normal admin has been denied with 'Insufficient permissions' on a route
\* that declares 'superadmin' alone
C12_Witness ==
  /\ Denied
  /\ NormalAdmin
  /\ guard.roles = {"superadmin"}
  /\ guard.status = 403
  /\ guard.message = "Access denied. Insufficient permissions."

(***************************************************************************)
(* models/Donor.js.  Ninety days of milliseconds exceed the integers of    *)
(* the model checker, so an instant of the donor clock is the pair         *)
(* <<days, ms>> of whole days since the epoch and milliseconds of the day, *)
(* 0 <= ms < MS_PER_DAY, and a Date carries that pair.                     *)
(***************************************************************************)
MS_PER_DAY == 1000 * 60 * 60 * 24

DateAt(instant) == [t |-> "date", v |-> instant]

\* Math.floor((a - b) / (1000 * 60 * 60 * 24)) for the instants a and b
FloorDays(a, b) == (a[1] - b[1]) + ((a[2] - b[2]) \div MS_PER_DAY)

\* isEligibleForDonation comparing with > 90
Donor_isEligibleForDonation_MoreThanNinety(self, nowT) ==
  IF ~Truthy(self.lastDonation) THEN Returned(TRUE, self)
  ELSE LET daysSinceLastDonation == FloorDays(nowT, self.lastDonation.v)
       IN  Returned(daysSinceLastDonation > 90, self)

\* donorSchema.virtual('isEligibleForDonation').get, with new Date() = nowT
Donor_isEligibleForDonation(self, nowT) ==
  IF ~Truthy(self.lastDonation) THEN Returned(TRUE, self)
  ELSE LET daysSinceLastDonation == FloorDays(nowT, self.lastDonation.v)
       IN  Returned(daysSinceLastDonation >= 90, self)

\* getDaysUntilEligible without the early return for an eligible donor
Donor_getDaysUntilEligible_NoEarlyReturn(self, nowT) ==
  IF ~Truthy(self.lastDonation) THEN Returned(Num(0), self)
  ELSE LET daysSinceLastDonation == FloorDays(nowT, self.lastDonation.v)
       IN  Returned(Num(90 - daysSinceLastDonation), self)

\* donorSchema.methods.getDaysUntilEligible, with new Date() = nowT
Donor_getDaysUntilEligible(self, nowT) ==
  IF ~Truthy(self.lastDonation) THEN Returned(Num(0), self)
  ELSE LET daysSinceLastDonation == FloorDays(nowT, self.lastDonation.v)
       IN  IF daysSinceLastDonation >= 90 THEN Returned(Num(0), self)
           ELSE Returned(Num(90 - daysSinceLastDonation), self)

(***************************************************************************)
(* DonorUnitSpec: isEligibleForDonation and getDaysUntilEligible read at   *)
(* one instant on a donor whose lastDonation is absent, null, in the past  *)
(* or in the future.                                                       *)
(***************************************************************************)
UnitLastDonations ==
  { Undefined, Null }
    \cup { DateAt(i) : i \in { <<0, 0>>, <<0, 1>>, <<0, MS_PER_DAY - 1>>, <<1, 0>>, <<100, 0>> } }

UnitInstants ==
  { <<0, 0>>, <<89, 0>>, <<89, MS_PER_DAY - 1>>, <<90, 0>>, <<90, 1>>,
    <<90, MS_PER_DAY - 1>>, <<91, 0>>, <<180, 0>> }

DonorDocument(id, lastDonation) == [_id |-> id, lastDonation |-> lastDonation, isActive |-> TRUE]

DonorUnitInit ==
  /\ MainInit
  /\ realm = "users"
  /\ guard = GuardIdle
  /\ \E lastDonation \in UnitLastDonations, at \in UnitInstants :
       unit = [pc |-> "call", self |-> DonorDocument(2, lastDonation), at |-> at,
               eligible |-> FALSE, days |-> Undefined]

Unit_eligibility ==
  /\ unit.pc = "call"
  /\ unit' = [unit EXCEPT !.pc = "returned",
                          !.eligible = Donor_isEligibleForDonation(unit.self, unit.at).ret,
                          !.days = Donor_getDaysUntilEligible(unit.self, unit.at).ret]
  /\ UNCHANGED <<mainVars, guard>>

DonorUnitNext == Unit_eligibility

DonorUnitSpec == DonorUnitInit /\ [][DonorUnitNext]_vars

\* the instant k whole days after a
PlusDays(a, k) == <<a[1] + k, a[2]>>
\* the instant a is not before the instant b
NotBefore(a, b) == a[1] > b[1] \/ (a[1] = b[1] /\ a[2] >= b[2])
\* at the instant a, ninety times 24 hours have passed since the donation at b
NinetyDaysPassed(a, b) == NotBefore(a, PlusDays(b, 90))

\* C16: isEligibleForDonation is true when lastDonation is absent and
\* otherwise exactly when ninety whole days have passed since lastDonation:
\* true at 90 days to the millisecond, false one millisecond before.
C16_EligibleFromNinetyWholeDays ==
  unit.pc = "returned" =>
    unit.eligible =
      IF unit.self.lastDonation \in {Undefined, Null} THEN TRUE
      ELSE NinetyDaysPassed(unit.at, unit.self.lastDonation.v)

\* the donor of 89 days and 23:59:59.999 has been found not eligible
C16_Witness ==
  /\ unit.pc = "returned"
  /\ unit.self.lastDonation = DateAt(<<0, 0>>)
  /\ unit.at = <<89, MS_PER_DAY - 1>>
  /\ ~unit.eligible

\* C17: getDaysUntilEligible returns an integer >= 0; it is 0 when
\* lastDonation is absent; read at the same instant as isEligibleForDonation
\* it is 0 exactly when the donor is eligible, and otherwise it is the number
\* of whole days after which the ninetieth day is complete (1 at 89 days).
C17_DaysUntilEligible ==
  unit.pc = "returned" =>
    /\ unit.days.t = "number"
    /\ unit.days.v[1] \in Nat
    /\ unit.self.lastDonation \in {Undefined, Null} => unit.days.v[1] = 0
    /\ unit.days.v[1] = 0 <=> unit.eligible
    /\ unit.days.v[1] > 0 =>
         /\ NinetyDaysPassed(PlusDays(unit.at, unit.days.v[1]), unit.self.lastDonation.v)
         /\ ~NinetyDaysPassed(PlusDays(unit.at, unit.days.v[1] - 1), unit.self.lastDonation.v)

\* one day is left for the donor of 89 days
C17_Witness ==
  /\ unit.pc = "returned"
  /\ unit.self.lastDonation = DateAt(<<0, 0>>)
  /\ unit.at = <<89, 0>>
  /\ unit.days = Num(1)
  /\ ~unit.eligible

(***************************************************************************)
(* routes/adminDonorRoutes.js: every route is                              *)
(*   router.METHOD(path, authenticate, authorize('admin'), handler).       *)
(* A request in flight carries the middleware it has passed in stages.     *)
(***************************************************************************)
\* donorSchema.methods.recordDonation that never assigns lastDonation
Donor_recordDonation_KeepsLastDonation(self, nowT) == Returned(TRUE, self)

\* donorSchema.methods.recordDonation up to its save(), with new Date() = nowT
Donor_recordDonation(self, nowT) ==
  Returned(TRUE, [self EXCEPT !.lastDonation = DateAt(nowT)])

\* new Date(value) of the date string a request body carries
NewDate(value) == DateAt(value.v)

ValidBloodGroups == {"A+", "A-", "B+", "B-", "AB+", "AB-", "O+", "O-"}

\* the instants of the donor clock: a first day, the last millisecond before
\* ninety days have passed since, and the ninetieth day to the millisecond
DonorInstants == { <<0, 0>>, <<89, MS_PER_DAY - 1>>, <<90, 0>> }

\* the bodies a client sends to POST / and PUT /:id; lastDonation is absent
\* or a date string
DonorBodies ==
  { [bloodGroup |-> bg, age |-> age, lastDonation |-> ld] :
      bg \in {"O+"}, age \in {30}, ld \in {Undefined, Str(<<0, 0>>)} }
    \cup { [bloodGroup |-> "X", age |-> 30, lastDonation |-> Undefined] }

NoBody == [bloodGroup |-> "", age |-> 0, lastDonation |-> Undefined]

\* the bearer tokens a client presents: none, one with a forged signature
\* that claims an admin, and the signed claims of that admin, of the user and
\* of an admin that has been removed
DonorTokens ==
  { [kind |-> "none", id |-> 0, type |-> ""],
    [kind |-> "invalid", id |-> 3, type |-> "admin"],
    [kind |-> "valid", id |-> 3, type |-> "admin"],
    [kind |-> "valid", id |-> 2, type |-> "user"],
    [kind |-> "valid", id |-> 4, type |-> "admin"] }

FirstDonorId == 5
DonorIds == {FirstDonorId, FirstDonorId + 1}

DonorIdle ==
  [pc |-> "idle", op |-> "", token |-> [kind |-> "none", id |-> 0, type |-> ""],
   id |-> 0, body |-> NoBody, user |-> Null, userType |-> "", doc |-> Null,
   stages |-> <<>>]

DonorInit ==
  /\ now = <<0, 0>>
  /\ users = GuardUsers
  /\ adminRequests = <<>>
  /\ admins = GuardAdmins
  /\ nextId = FirstDonorId
  /\ nreq = 0
  /\ req = [r \in Reqs |-> DonorIdle]
  /\ last = [op |-> "", id |-> 0, token |-> [kind |-> "none", id |-> 0, type |-> ""],
             status |-> 0, message |-> "", days |-> Undefined, stages |-> <<>>]
  /\ issued = <<>>
  /\ realm = "donors"
  /\ donors = <<>>
  /\ donations = <<>>
  /\ unit = UnitIdle
  /\ guard = GuardIdle

\* res.status(status).json(...): the request on slot r is answered
Donor_Respond(r, rq, status, message, days, stages, after) ==
  /\ last' = [op |-> rq.op, id |-> rq.id, token |-> rq.token,
              status |-> status, message |-> message, days |-> days, stages |-> stages]
  /\ req' = [req EXCEPT ![r] = DonorIdle]

\* a request arrives and authenticate runs, to its await on findById
Donor_Authenticate(r, op, token, id, body) ==
  LET rq == [DonorIdle EXCEPT !.op = op, !.token = token, !.id = id,
                              !.body = body, !.stages = <<"authenticate">>]
      out == authenticate(rq, token, users, admins)
  IN  /\ Free(r, "donors")
      /\ nreq' = nreq + 1
      /\ IF out.next
         THEN req' = [req EXCEPT ![r] = [out.req EXCEPT !.pc = "authorize"]] /\ UNCHANGED last
         ELSE Donor_Respond(r, rq, out.status, out.message, Undefined, rq.stages, Null)
      /\ UNCHANGED <<now, users, adminRequests, admins, nextId, issued, realm, unit, guard,
                     donors, donations>>

\* the request on slot r stands before authorize('admin') of route op
BeforeAuthorize(r, op) == req[r].op = op /\ req[r].pc = "authorize"
Authorize(r) == authorize({"admin"}, req[r])
WithAuthorize(r) == Append(req[r].stages, "authorize")
WithHandler(r) == WithAuthorize(r) \o <<"handler">>

\* POST /: authorize, then the handler to its end
CreateDonor_Save(r) ==
  LET body == req[r].body
      donor == [_id |-> nextId, bloodGroup |-> body.bloodGroup, age |-> body.age,
                lastDonation |-> IF Truthy(body.lastDonation) THEN NewDate(body.lastDonation)
                                 ELSE Undefined,
                isActive |-> TRUE]
  IN  /\ BeforeAuthorize(r, "create-donor")
      /\ IF ~Authorize(r).next
         THEN /\ Donor_Respond(r, req[r], Authorize(r).status, Authorize(r).message, Undefined,
                               WithAuthorize(r), Null)
              /\ UNCHANGED <<donors, nextId>>
         ELSE IF body.bloodGroup \notin ValidBloodGroups
         THEN /\ Donor_Respond(r, req[r], 400, "Invalid blood group", Undefined, WithHandler(r), Null)
              /\ UNCHANGED <<donors, nextId>>
         ELSE IF body.age < 16 \/ body.age > 65
         THEN /\ Donor_Respond(r, req[r], 400, "Age must be between 16 and 65", Undefined,
                               WithHandler(r), Null)
              /\ UNCHANGED <<donors, nextId>>
         ELSE IF donor.age < 18
         THEN /\ Donor_Respond(r, req[r], 500, "Failed to register donor", Undefined,
                               WithHandler(r), Null)
              /\ nextId' = nextId + 1
              /\ UNCHANGED donors
         ELSE /\ donors' = Append(donors, donor)
              /\ nextId' = nextId + 1
              /\ Donor_Respond(r, [req[r] EXCEPT !.id = donor._id], 201,
                               "Donor registered successfully", Undefined, WithHandler(r), donor)
      /\ UNCHANGED <<now, users, adminRequests, admins, nreq, issued, realm, unit, guard, donations>>

\* Model.findByIdAndUpdate(id, update): $set of the keys of update
FindByIdAndUpdate(coll, id, update) ==
  [ i \in DOMAIN coll |->
      IF coll[i]._id = id
      THEN [ f \in DOMAIN coll[i] |-> IF f \in DOMAIN update THEN update[f] ELSE coll[i][f] ]
      ELSE coll[i] ]

\* PUT /:id: authorize, then the handler to its end.  An undefined value in
\* the update is dropped or stored as null, depending on the mongoose release.
UpdateDonor_Apply(r, omitUndefined) ==
  LET body == req[r].body
      lastDonation == IF Truthy(body.lastDonation) THEN NewDate(body.lastDonation) ELSE Undefined
      updateData ==
        IF lastDonation # Undefined
        THEN [bloodGroup |-> body.bloodGroup, age |-> body.age, lastDonation |-> lastDonation]
        ELSE IF omitUndefined
        THEN [bloodGroup |-> body.bloodGroup, age |-> body.age]
        ELSE [bloodGroup |-> body.bloodGroup, age |-> body.age, lastDonation |-> Null]
      updated == FindByIdAndUpdate(donors, req[r].id, updateData)
  IN  /\ BeforeAuthorize(r, "update-donor")
      /\ IF ~Authorize(r).next
         THEN /\ Donor_Respond(r, req[r], Authorize(r).status, Authorize(r).message, Undefined,
                               WithAuthorize(r), Null)
              /\ UNCHANGED donors
         ELSE IF body.bloodGroup \notin ValidBloodGroups
         THEN /\ Donor_Respond(r, req[r], 400, "Invalid blood group", Undefined, WithHandler(r), Null)
              /\ UNCHANGED donors
         ELSE IF body.age < 16 \/ body.age > 65
         THEN /\ Donor_Respond(r, req[r], 400, "Age must be between 16 and 65", Undefined,
                               WithHandler(r), Null)
              /\ UNCHANGED donors
         ELSE IF body.age < 18
         THEN /\ Donor_Respond(r, req[r], 500, "Failed to update donor", Undefined,
                               WithHandler(r), Null)
              /\ UNCHANGED donors
         ELSE IF ~HasId(donors, req[r].id)
         THEN /\ Donor_Respond(r, req[r], 404, "Donor not found", Undefined, WithHandler(r), Null)
              /\ UNCHANGED donors
         ELSE /\ donors' = updated
              /\ Donor_Respond(r, req[r], 200, "Donor updated successfully", Undefined,
                               WithHandler(r), FindById(updated, req[r].id))
      /\ UNCHANGED <<now, users, adminRequests, admins, nextId, nreq, issued, realm, unit, guard,
                     donations>>

\* DELETE /:id: authorize, then the handler to its end (a soft delete)
DeleteDonor_Apply(r) ==
  LET updated == FindByIdAndUpdate(donors, req[r].id, [isActive |-> FALSE])
  IN  /\ BeforeAuthorize(r, "delete-donor")
      /\ IF ~Authorize(r).next
         THEN /\ Donor_Respond(r, req[r], Authorize(r).status, Authorize(r).message, Undefined,
                               WithAuthorize(r), Null)
              /\ UNCHANGED donors
         ELSE IF ~HasId(donors, req[r].id)
         THEN /\ Donor_Respond(r, req[r], 404, "Donor not found", Undefined, WithHandler(r), Null)
              /\ UNCHANGED donors
         ELSE /\ donors' = updated
              /\ Donor_Respond(r, req[r], 200, "Donor deleted successfully", Undefined,
                               WithHandler(r), FindById(updated, req[r].id))
      /\ UNCHANGED <<now, users, adminRequests, admins, nextId, nreq, issued, realm, unit, guard,
                     donations>>

\* POST /:id/record-donation: authorize, then the handler to await Donor.findById
RecordDonation_Find(r) ==
  LET donor == FindById(donors, req[r].id)
  IN  /\ BeforeAuthorize(r, "record-donation")
      /\ IF ~Authorize(r).next
         THEN Donor_Respond(r, req[r], Authorize(r).status, Authorize(r).message, Undefined,
                            WithAuthorize(r), Null)
         ELSE req' = [req EXCEPT ![r].pc = "check", ![r].doc = donor,
                                 ![r].stages = WithHandler(r)] /\ UNCHANGED last
      /\ UNCHANGED <<now, users, adminRequests, admins, nextId, nreq, issued, realm, unit, guard,
                     donors, donations>>

\* POST /:id/record-donation without the test of isActive
RecordDonation_Save_IgnoresIsActive(r) ==
  LET donor == req[r].doc
      recorded == Donor_recordDonation(donor, now).self
  IN  /\ req[r].op = "record-donation" /\ req[r].pc = "check"
      /\ IF donor = Null
         THEN /\ Donor_Respond(r, req[r], 404, "Donor not found", Undefined, req[r].stages, Null)
              /\ UNCHANGED <<donors, donations>>
         ELSE IF ~Donor_isEligibleForDonation(donor, now).ret
         THEN /\ Donor_Respond(r, req[r], 400, "Donor is not eligible. Must wait N more days.",
                               Donor_getDaysUntilEligible(donor, now).ret, req[r].stages, donor)
              /\ UNCHANGED <<donors, donations>>
         ELSE /\ donors' = UpdatePaths(donors, recorded, {"lastDonation"})
              /\ donations' = Append(donations, [donor |-> donor._id, at |-> now])
              /\ Donor_Respond(r, req[r], 200, "Donation recorded successfully", Undefined,
                               req[r].stages, recorded)
      /\ UNCHANGED <<now, users, adminRequests, admins, nextId, nreq, issued, realm, unit, guard>>

\* POST /:id/record-donation, from the loaded donor to the response: the
\* checks, recordDonation and its save of lastDonation
RecordDonation_Save(r) ==
  LET donor == req[r].doc
      recorded == Donor_recordDonation(donor, now).self
  IN  /\ req[r].op = "record-donation" /\ req[r].pc = "check"
      /\ IF donor = Null \/ ~donor.isActive
         THEN /\ Donor_Respond(r, req[r], 404, "Donor not found", Undefined, req[r].stages, Null)
              /\ UNCHANGED <<donors, donations>>
         ELSE IF ~Donor_isEligibleForDonation(donor, now).ret
         THEN /\ Donor_Respond(r, req[r], 400, "Donor is not eligible. Must wait N more days.",
                               Donor_getDaysUntilEligible(donor, now).ret, req[r].stages, donor)
              /\ UNCHANGED <<donors, donations>>
         ELSE /\ donors' = UpdatePaths(donors, recorded, {"lastDonation"})
              /\ donations' = Append(donations, [donor |-> donor._id, at |-> now])
              /\ Donor_Respond(r, req[r], 200, "Donation recorded successfully", Undefined,
                               req[r].stages, recorded)
      /\ UNCHANGED <<now, users, adminRequests, admins, nextId, nreq, issued, realm, unit, guard>>

\* the donor clock moves forward
DonorTick(t) ==
  /\ realm = "donors"
  /\ NotBefore(t, now) /\ t # now
  /\ now' = t
  /\ UNCHANGED <<users, adminRequests, admins, nextId, nreq, req, last, issued, realm, unit,
                 guard, donors, donations>>

DonorNext ==
  \/ \E t \in DonorInstants : DonorTick(t)
  \/ \E r \in Reqs, token \in DonorTokens, body \in DonorBodies :
       Donor_Authenticate(r, "create-donor", token, 0, body)
  \/ \E r \in Reqs, token \in DonorTokens, id \in DonorIds, body \in DonorBodies :
       Donor_Authenticate(r, "update-donor", token, id, body)
  \/ \E r \in Reqs, token \in DonorTokens, id \in DonorIds, op \in {"delete-donor", "record-donation"} :
       Donor_Authenticate(r, op, token, id, NoBody)
  \/ \E r \in Reqs : CreateDonor_Save(r)
  \/ \E r \in Reqs, omitUndefined \in BOOLEAN : UpdateDonor_Apply(r, omitUndefined)
  \/ \E r \in Reqs : DeleteDonor_Apply(r)
  \/ \E r \in Reqs : RecordDonation_Find(r)
  \/ \E r \in Reqs : RecordDonation_Save(r)

DonorSpec == DonorInit /\ [][DonorNext]_vars

\* the token names a stored principal and carries a good signature
Authentic(token) ==
  /\ token.kind = "valid"
  /\ \/ token.type = "user" /\ FindById(users, token.id) # Null
     \/ token.type = "admin" /\ FindById(admins, token.id) # Null

AnsweredOn(r) == req[r].pc # "idle" /\ req'[r].pc = "idle"

\* this step answers the record-donation request on slot r with success
RecordedOn(r) ==
  /\ AnsweredOn(r)
  /\ req[r].op = "record-donation"
  /\ last'.status = 200

\* C13: on the guarded donor routes a request without a token, with a token
\* of bad signature or with the token of a removed principal is answered 401
\* by authenticate: it is never in flight past authenticate, authorize and
\* the handler have not run when the 401 is sent, and the step that sends a
\* 401 changes no collection.
C13_AuthenticationComesFirst ==
  [][ /\ \A r \in Reqs : req'[r].pc # "idle" => Authentic(req'[r].token)
      /\ ((nreq' # nreq /\ req' = req) \/ \E r \in Reqs : AnsweredOn(r)) =>
           /\ ~Authentic(last'.token) => last'.status = 401
           /\ last'.status = 401 =>
                /\ last'.stages = <<"authenticate">>
                /\ UNCHANGED <<users, admins, adminRequests, donors, donations>> ]_vars

\* a record-donation request for a stored donor, sent with the token of a
\* removed admin, has been answered 401
C13_Witness ==
  /\ last.op = "record-donation"
  /\ last.status = 401
  /\ last.token = [kind |-> "valid", id |-> 4, type |-> "admin"]
  /\ FindById(donors, last.id) # Null
  /\ FindById(donors, last.id).lastDonation = Undefined

\* C18: the step that answers a record-donation request with success stores
\* lastDonation = the current time, so that read in the state it leaves the
\* donor is not eligible and getDaysUntilEligible is 90; and a donor whose
\* lastDonation is that of a recorded donation is eligible only once ninety
\* whole days have passed since.
C18_RecordDonationStartsCooldown ==
  [][ /\ \A r \in Reqs : RecordedOn(r) =>
           LET donor == FindById(donors', req[r].id)
           IN  /\ donor.lastDonation = DateAt(now')
               /\ ~Donor_isEligibleForDonation(donor, now').ret
               /\ Donor_getDaysUntilEligible(donor, now').ret = Num(90)
      /\ \A i \in DOMAIN donors', k \in DOMAIN donations' :
           /\ donations'[k].donor = donors'[i]._id
           /\ donors'[i].lastDonation = DateAt(donations'[k].at)
           => ( Donor_isEligibleForDonation(donors'[i], now').ret
                  <=> NinetyDaysPassed(now', donations'[k].at) ) ]_vars

\* a donation recorded on day 0 keeps the donor ineligible one millisecond
\* before the ninetieth day is complete
C18_Witness ==
  /\ donations # <<>>
  /\ donations[1].at = <<0, 0>>
  /\ now = <<89, MS_PER_DAY - 1>>
  /\ LET donor == FindById(donors, donations[1].donor)
     IN  /\ donor.lastDonation = DateAt(<<0, 0>>)
         /\ ~Donor_isEligibleForDonation(donor, now).ret

\* C19: of the record-donation requests for one donor answered 'Donation
\* recorded successfully', no two fall in the same eligibility window: any
\* two are at least ninety days apart.
C19_OneDonationPerWindow ==
  \A i, j \in DOMAIN donations :
    i < j /\ donations[i].donor = donations[j].donor
      => NinetyDaysPassed(donations[j].at, donations[i].at)

\* C20: the lastDonation of a stored donor changes (other than from absent to
\* null) only in a step that answers a record-donation request for that
\* donor with success.
C20_OnlyRecordDonationWritesLastDonation ==
  [][ \A i \in DOMAIN donors :
        /\ donors'[i].lastDonation # donors[i].lastDonation
        /\ Truthy(donors'[i].lastDonation) \/ Truthy(donors[i].lastDonation)
        => \E r \in Reqs : RecordedOn(r) /\ req[r].id = donors[i]._id ]_vars

(***************************************************************************)
(* routes/adminRequestRoutes.js, the submit step and the review:           *)
(*   POST /submit                                                          *)
(*   POST /approve/:id, POST /reject/:id                                   *)
(*     behind authenticate, authorize('admin', 'superadmin').              *)
(***************************************************************************)
ReviewRoles == {"admin", "superadmin"}

\* bcrypt.hash(password, 12): the hash is the password behind a marker; it
\* never equals a password a client sends
BcryptHash(password) == Str(<<2>> \o password.v)

\* the values of a body of POST /submit: every field given, the name left
\* out, the password left out
SomeText == Str(<<7>>)
SomePassword == Str(<<1, 2, 3, 4, 5, 6>>)
SubmitBodies ==
  { [name |-> name, rollNo |-> SomeText, branch |-> SomeText, year |-> SomeText,
     phone |-> SomeText, password |-> password] :
      name \in {SomeText, Undefined}, password \in {SomePassword} }
    \cup { [name |-> SomeText, rollNo |-> SomeText, branch |-> SomeText, year |-> SomeText,
            phone |-> SomeText, password |-> Undefined] }

\* the bearer tokens presented to the review routes: none, the super admin's
ReviewTokens ==
  { [kind |-> "none", id |-> 0, type |-> ""], [kind |-> "valid", id |-> 1, type |-> "admin"] }

FirstRequestId == 2
ReviewIds == {FirstRequestId, FirstRequestId + 1}

\* the request of the applicant after send-otp and verify-otp
VerifiedRequest == [NewAdminRequest(FirstRequestId, UserEmail) EXCEPT !.emailVerified = TRUE]

\* the paths of doc that differ from the document as loaded
ModifiedPaths(loaded, doc) == { f \in DOMAIN doc : doc[f] # loaded[f] }

\* a request of the review routes: the fields of a request and those that
\* authenticate and the handler use
ReviewRequest(op, email, token, id, body) ==
  [token |-> token, id |-> id, body |-> body, user |-> Null, userType |-> ""]
    @@ Request(op, email, Undefined)

ReviewInit ==
  /\ now = 0
  /\ users = <<>>
  /\ admins = << [_id |-> 1, email |-> SuperAdminEmail, role |-> "main"] >>
  /\ \/ adminRequests = <<>> /\ nextId = FirstRequestId
     \/ adminRequests = <<VerifiedRequest>> /\ nextId = FirstRequestId + 1
  /\ nreq = 0
  /\ req = [r \in Reqs |-> IdleReq]
  /\ last = NoResponse
  /\ issued = <<>>
  /\ realm = "adminRequests"
  /\ donors = <<>>
  /\ donations = <<>>
  /\ unit = UnitIdle
  /\ guard = GuardIdle

\* POST /submit, to await AdminRequest.findOne({ email }) and the test of
\* emailVerified on what it returns
Submit_Find(r, email, body) ==
  LET rq == ReviewRequest("admin-request/submit", email, [kind |-> "none", id |-> 0, type |-> ""],
                          0, body)
      adminRequest == FindOne(adminRequests, email)
  IN  /\ Free(r, "adminRequests")
      /\ nreq' = nreq + 1
      /\ IF adminRequest = Null \/ ~adminRequest.emailVerified
         THEN Respond(r, rq, 400, "Please verify your email first", FALSE, Null)
         ELSE req' = [req EXCEPT ![r] = [rq EXCEPT !.pc = "save", !.doc = adminRequest]]
              /\ UNCHANGED last
      /\ UNCHANGED <<now, users, adminRequests, admins, nextId, issued, realm, unit, guard,
                     donors, donations>>

\* POST /submit: the fields of the body and status = 'pending' are set on the
\* loaded request, then await adminRequest.save(): validation (password of 6
\* characters at least), the pre-save hook that hashes a modified password,
\* and the write of the modified paths
Submit_Save(r) ==
  LET body == req[r].body
      set == [req[r].doc EXCEPT !.name = body.name, !.rollNo = body.rollNo,
                                !.branch = body.branch, !.year = body.year,
                                !.phone = body.phone, !.password = body.password,
                                !.status = "pending"]
      paths == ModifiedPaths(req[r].doc, set)
      adminRequest == IF "password" \in paths
                      THEN [set EXCEPT !.password = BcryptHash(set.password)] ELSE set
  IN  /\ At(r, "admin-request/submit", "save")
      /\ IF \/ "password" \in paths /\ (set.password.t # "string" \/ Len(set.password.v) < 6)
            \/ ~HasId(adminRequests, set._id)
         THEN /\ Respond(r, req[r], 500, "Failed to submit request", FALSE, req[r].doc)
              /\ UNCHANGED adminRequests
         ELSE /\ adminRequests' = UpdatePaths(adminRequests, adminRequest, paths)
              /\ Respond(r, req[r], 200, "Admin request submitted successfully", FALSE, adminRequest)
      /\ UNCHANGED <<now, users, admins, nextId, nreq, issued, realm, unit, guard, donors, donations>>

\* POST /approve/:id or /reject/:id arrives and authenticate runs
Review_Authenticate(r, op, token, id) ==
  LET rq == ReviewRequest(op, "", token, id, Undefined)
      out == authenticate(rq, token, users, admins)
  IN  /\ Free(r, "adminRequests")
      /\ nreq' = nreq + 1
      /\ IF out.next
         THEN req' = [req EXCEPT ![r] = [out.req EXCEPT !.pc = "authorize"]] /\ UNCHANGED last
         ELSE Respond(r, rq, out.status, out.message, FALSE, Null)
      /\ UNCHANGED <<now, users, adminRequests, admins, nextId, issued, realm, unit, guard,
                     donors, donations>>

\* authorize('admin', 'superadmin'), the handler's own test of the role, and
\* await AdminRequest.findById(id)
Review_Find(r, op) ==
  LET out == authorize(ReviewRoles, req[r])
  IN  /\ At(r, op, "authorize")
      /\ op \in {"admin-request/approve", "admin-request/reject"}
      /\ IF ~out.next
         THEN Respond(r, req[r], out.status, out.message, FALSE, Null)
         ELSE IF req[r].user.role # "main"
         THEN Respond(r, req[r], 403, "Access denied. Super admin privileges required.", FALSE, Null)
         ELSE req' = [req EXCEPT ![r].pc = "review", ![r].doc = FindById(adminRequests, req[r].id)]
              /\ UNCHANGED last
      /\ UNCHANGED <<now, users, adminRequests, admins, nextId, nreq, issued, realm, unit, guard,
                     donors, donations>>

\* the profile fields the approve handler finds missing
MissingFields(adminRequest) ==
  { f \in {"name", "rollNo", "branch", "year", "phone", "password"} : ~Truthy(adminRequest[f]) }

\* POST /approve/:id, from the loaded request to await Admin.collection.insertOne;
\* whether the collection refuses a second account of one email is the
\* Admin model's index, either way
Approve_Insert(r, uniqueEmail) ==
  LET adminRequest == req[r].doc
      adminData == [_id |-> nextId, name |-> adminRequest.name, email |-> adminRequest.email,
                    password |-> adminRequest.password, role |-> "normal"]
  IN  /\ At(r, "admin-request/approve", "review")
      /\ IF adminRequest = Null \/ adminRequest.status # "pending"
         THEN /\ Respond(r, req[r], 404, "Admin request not found or already processed", FALSE,
                         adminRequest)
              /\ UNCHANGED <<admins, nextId>>
         ELSE IF MissingFields(adminRequest) # {}
         THEN /\ Respond(r, req[r], 400, "Admin request is incomplete.", FALSE, adminRequest)
              /\ UNCHANGED <<admins, nextId>>
         ELSE IF uniqueEmail /\ FindOne(admins, adminRequest.email) # Null
         THEN /\ Respond(r, req[r], 500, "Failed to approve request", FALSE, adminRequest)
              /\ UNCHANGED <<admins, nextId>>
         ELSE /\ admins' = Append(admins, adminData)
              /\ nextId' = nextId + 1
              /\ req' = [req EXCEPT ![r].pc = "save"]
              /\ UNCHANGED last
      /\ UNCHANGED <<now, users, adminRequests, nreq, issued, realm, unit, guard, donors, donations>>

\* POST /approve/:id: status, reviewedBy and reviewedAt are set, await
\* adminRequest.save(), await sendAdminApprovalEmail (its result is not used)
Approve_Save(r) ==
  LET adminRequest == [req[r].doc EXCEPT !.status = "approved",
                                         !.reviewedBy = Num(req[r].user._id),
                                         !.reviewedAt = Date(now)]
  IN  /\ At(r, "admin-request/approve", "save")
      /\ IF ~HasId(adminRequests, adminRequest._id)
         THEN /\ Respond(r, req[r], 500, "Failed to approve request", FALSE, req[r].doc)
              /\ UNCHANGED adminRequests
         ELSE /\ adminRequests' = UpdatePaths(adminRequests, adminRequest,
                                              ModifiedPaths(req[r].doc, adminRequest))
              /\ Respond(r, req[r], 200, "Admin request approved successfully", FALSE, adminRequest)
      /\ UNCHANGED <<now, users, admins, nextId, nreq, issued, realm, unit, guard, donors, donations>>

Reject_Save_AnyStatus(r) ==
  LET loaded == req[r].doc
      adminRequest == [loaded EXCEPT !.status = "rejected",
                                     !.reviewedBy = Num(req[r].user._id),
                                     !.reviewedAt = Date(now)]
  IN  /\ At(r, "admin-request/reject", "review")
      /\ IF loaded = Null
         THEN /\ Respond(r, req[r], 404, "Admin request not found or already processed", FALSE,
                         loaded)
              /\ UNCHANGED adminRequests
         ELSE /\ adminRequests' = UpdatePaths(adminRequests, adminRequest,
                                              ModifiedPaths(loaded, adminRequest))
              /\ Respond(r, req[r], 200, "Admin request rejected successfully", FALSE, adminRequest)
      /\ UNCHANGED <<now, users, admins, nextId, nreq, issued, realm, unit, guard, donors, donations>>

\* POST /reject/:id, from the loaded request to the response
Reject_Save(r) ==
  LET loaded == req[r].doc
      adminRequest == [loaded EXCEPT !.status = "rejected",
                                     !.reviewedBy = Num(req[r].user._id),
                                     !.reviewedAt = Date(now)]
  IN  /\ At(r, "admin-request/reject", "review")
      /\ IF loaded = Null \/ loaded.status # "pending"
         THEN /\ Respond(r, req[r], 404, "Admin request not found or already processed", FALSE,
                         loaded)
              /\ UNCHANGED adminRequests
         ELSE /\ adminRequests' = UpdatePaths(adminRequests, adminRequest,
                                              ModifiedPaths(loaded, adminRequest))
              /\ Respond(r, req[r], 200, "Admin request rejected successfully", FALSE, adminRequest)
      /\ UNCHANGED <<now, users, admins, nextId, nreq, issued, realm, unit, guard, donors, donations>>

ReviewNext ==
  \/ \E t \in Instants : Tick(t)
  \/ \E r \in Reqs : AdminRequest_SendOtp_Find(r, UserEmail)
  \/ \E r \in Reqs, rnd \in MathRandom, emailSent \in BOOLEAN : AdminRequest_SendOtp_Save(r, rnd, emailSent)
  \/ \E r \in Reqs, otp \in Candidates : AdminRequest_VerifyOtp_Find(r, UserEmail, otp)
  \/ \E r \in Reqs : AdminRequest_VerifyOtp_Save(r)
  \/ \E r \in Reqs, body \in SubmitBodies : Submit_Find(r, UserEmail, body)
  \/ \E r \in Reqs : Submit_Save(r)
  \/ \E r \in Reqs, token \in ReviewTokens, id \in ReviewIds,
        op \in {"admin-request/approve", "admin-request/reject"} : Review_Authenticate(r, op, token, id)
  \/ \E r \in Reqs, op \in {"admin-request/approve", "admin-request/reject"} : Review_Find(r, op)
  \/ \E r \in Reqs, uniqueEmail \in BOOLEAN : Approve_Insert(r, uniqueEmail)
  \/ \E r \in Reqs : Approve_Save(r)
  \/ \E r \in Reqs : Reject_Save(r)

ReviewSpec == ReviewInit /\ [][ReviewNext]_vars

\* C14: the status of a stored AdminRequest changes only away from pending:
\* to approved or to rejected, and once approved or rejected it stays.
C14_StatusIsMonotone ==
  [][ \A i \in DOMAIN adminRequests :
        adminRequests'[i].status # adminRequests[i].status
          => /\ adminRequests[i].status = "pending"
             /\ adminRequests'[i].status \in {"approved", "rejected"} ]_vars

\* C15: a stored AdminRequest with status approved has emailVerified = true
\* and every profile field populated; and an approve request that finds a
\* pending request without one of them inserts no Admin and leaves the
\* request as it is.
C15_ApprovedIsComplete ==
  [][ /\ \A i \in DOMAIN adminRequests' :
           adminRequests'[i].status = "approved"
             => adminRequests'[i].emailVerified /\ MissingFields(adminRequests'[i]) = {}
      /\ \A r \in Reqs :
           /\ At(r, "admin-request/approve", "review")
           /\ req'[r] # req[r]
           /\ req[r].doc # Null
           /\ req[r].doc.status = "pending"
           /\ ~req[r].doc.emailVerified \/ MissingFields(req[r].doc) # {}
           => UNCHANGED <<admins, adminRequests>> ]_vars

\* C23: the record-donation handler answers by the donor it loaded: 404 for
\* a missing or soft-deleted donor, 400 with the days that remain for one
\* not eligible at the time of the check, and in both cases no donor is
\* written; only for a stored, active, eligible donor does it answer 200,
\* and then it writes lastDonation of that donor and nothing else.
C23_RecordDonationRefusals ==
  [][ \A r \in Reqs :
        AnsweredOn(r) /\ req[r].op = "record-donation" /\ req[r].pc = "check" =>
          LET donor == req[r].doc
          IN  IF donor = Null \/ ~donor.isActive
              THEN last'.status = 404 /\ UNCHANGED <<donors, donations>>
              ELSE IF Truthy(donor.lastDonation) /\ ~NinetyDaysPassed(now, donor.lastDonation.v)
              THEN /\ last'.status = 400
                   /\ last'.days.t = "number" /\ last'.days.v[1] > 0
                   /\ UNCHANGED <<donors, donations>>
              ELSE /\ last'.status = 200
                   /\ \A i \in DOMAIN donors :
                        /\ donors'[i]._id # donor._id => donors'[i] = donors[i]
                        /\ donors'[i].isActive = donors[i].isActive ]_vars

\* a record-donation request for a soft-deleted donor has been answered 404
C23_Witness ==
  /\ last.op = "record-donation"
  /\ last.status = 404
  /\ last.stages = <<"authenticate", "authorize", "handler">>
  /\ FindById(donors, last.id) # Null
  /\ ~FindById(donors, last.id).isActive

(***************************************************************************)
(* Donor writes at the edges of the age range: clients create and update   *)
(* donors with ages on both sides of 16, of 18 and of 65.                  *)
(***************************************************************************)
DonorWriteBodies ==
  { [bloodGroup |-> bg, age |-> age, lastDonation |-> Undefined] :
      bg \in {"O+", "X"}, age \in {15, 16, 17, 18, 65, 66} }

DonorWriteTokens ==
  { [kind |-> "none", id |-> 0, type |-> ""],
    [kind |-> "valid", id |-> 3, type |-> "admin"],
    [kind |-> "valid", id |-> 2, type |-> "user"] }

DonorWriteNext ==
  \/ \E r \in Reqs, token \in DonorWriteTokens, body \in DonorWriteBodies :
       Donor_Authenticate(r, "create-donor", token, 0, body)
  \/ \E r \in Reqs, token \in DonorWriteTokens, id \in DonorIds, body \in DonorWriteBodies :
       Donor_Authenticate(r, "update-donor", token, id, body)
  \/ \E r \in Reqs : CreateDonor_Save(r)
  \/ \E r \in Reqs, omitUndefined \in BOOLEAN : UpdateDonor_Apply(r, omitUndefined)

DonorWriteSpec == DonorInit /\ [][DonorWriteNext]_vars

\* C26: a donor write that reaches the handler with a valid blood group and
\* an age in 16..65 is accepted (201 for a create, which stores the donor;
\* 200 for an update of a stored donor), and one with another age or blood
\* group is answered 400 and writes nothing.
C26_DonorWriteValidation ==
  [][ \A r \in Reqs :
        /\ AnsweredOn(r)
        /\ req[r].op \in {"create-donor", "update-donor"}
        /\ last'.stages = <<"authenticate", "authorize", "handler">>
        => IF (req[r].body.bloodGroup \in ValidBloodGroups /\ req[r].body.age \in 16..65)
           THEN IF req[r].op = "create-donor"
                THEN last'.status = 201 /\ Len(donors') = Len(donors) + 1
                ELSE HasId(donors, req[r].id) => last'.status = 200
           ELSE last'.status = 400 /\ UNCHANGED donors ]_vars

\* C24: an approve or a reject that loaded no request, or one whose status
\* is approved or rejected, is answered 404 and changes neither the Admin
\* collection nor any AdminRequest; one that is answered with success was
\* sent by a main admin and leaves the request with its status, with
\* reviewedBy that admin and with reviewedAt the time of the review.
C24_ReviewOnlyPending ==
  [][ \A r \in Reqs :
        /\ (req[r].op \in {"admin-request/approve", "admin-request/reject"} /\ req[r].pc = "review") /\ req'[r] # req[r]
           /\ (req[r].doc = Null \/ req[r].doc.status # "pending")
           => last'.status = 404 /\ UNCHANGED <<admins, adminRequests>>
        /\ (req[r].op \in {"admin-request/approve", "admin-request/reject"} /\ req[r].pc # "idle" /\ req'[r].pc = "idle" /\ last'.status = 200)
           => /\ req[r].user.role = "main"
              /\ req[r].doc.status = "pending"
              /\ LET stored == FindById(adminRequests', req[r].id)
                 IN  /\ stored.status =
                          (IF req[r].op = "admin-request/approve" THEN "approved" ELSE "rejected")
                     /\ stored.reviewedBy = Num(req[r].user._id)
                     /\ stored.reviewedAt = Date(now) ]_vars

C24_Witness ==
  /\ last.op = "admin-request/reject"
  /\ last.status = 404
  /\ last.after # Null
  /\ last.after.status = "approved"
  /\ last.after.reviewedBy = Num(1)

\* C25: the review of a request leaves one outcome: no two Admin accounts
\* carry the email of one request, and no Admin account carries the email of
\* a request whose status is rejected.
C25_ReviewedOnce ==
  /\ \A i, j \in DOMAIN admins : admins[i].email = admins[j].email => i = j
  /\ \A i \in DOMAIN adminRequests :
       adminRequests[i].status = "rejected" => FindOne(admins, adminRequests[i].email) = Null

\* C22: a signup, a send-login-otp or an admin-request send-otp that is
\* answered with a failure leaves nothing of what it stored: the challenge
\* the request saved, if it saved one, is not the stored challenge of any
\* document when the failure is reported.
C22_FailureLeavesNothing ==
  [][ \A r \in Reqs :
        /\ req[r].pc # "idle" /\ req'[r].pc = "idle"
        /\ req[r].op \in {"signup", "send-login-otp", "admin-request/send-otp"}
        /\ last'.status >= 400
        /\ last'.gen # 0
        => ~issued'[last'.gen].live ]_vars

(***************************************************************************)
(* routes/userRoutes.js, POST /login: the password login of a User or, with *)
(* role admin or superadmin in the body, of an Admin.  The stored password *)
(* is a bcrypt hash; whether the password of the body matches it is the    *)
(* client's doing.                                                         *)
(***************************************************************************)

\* a request of POST /login: the fields of a request, the role of the body
\* and the userType the handler derives from it
LoginRequest(email, role) ==
  [role |-> role, userType |-> IF role \in {"admin", "superadmin"} THEN "admin" ELSE "user"]
    @@ Request("login", email, Undefined)

\* POST /login without the test of user.verified
Login_Find_SkipsVerified(r, email, role) ==
  LET rq == LoginRequest(email, role)
      user == IF rq.userType = "admin" THEN FindOne(admins, email) ELSE FindOne(users, email)
  IN  /\ Free(r, "users")
      /\ nreq' = nreq + 1
      /\ IF role = "superadmin" /\ (user = Null \/ user.role # "main")
         THEN Respond(r, rq, 401, "Access denied. Super admin credentials required.", FALSE, Null)
         ELSE IF user = Null
         THEN Respond(r, rq, 401, "Invalid credentials", FALSE, Null)
         ELSE req' = [req EXCEPT ![r] = [rq EXCEPT !.pc = "compare", !.doc = user]]
              /\ UNCHANGED last
      /\ UNCHANGED <<now, users, adminRequests, admins, nextId, issued, realm, unit, guard,
                     donors, donations>>

\* POST /login, to await Admin.findOne or User.findOne and the tests on what
\* it returns
Login_Find(r, email, role) ==
  LET rq == LoginRequest(email, role)
      user == IF rq.userType = "admin" THEN FindOne(admins, email) ELSE FindOne(users, email)
  IN  /\ Free(r, "users")
      /\ nreq' = nreq + 1
      /\ IF role = "superadmin" /\ (user = Null \/ user.role # "main")
         THEN Respond(r, rq, 401, "Access denied. Super admin credentials required.", FALSE, Null)
         ELSE IF rq.userType = "user" /\ user # Null /\ ~user.verified
         THEN Respond(r, rq, 401, "Please verify your email before logging in", FALSE, Null)
         ELSE IF user = Null
         THEN Respond(r, rq, 401, "Invalid credentials", FALSE, Null)
         ELSE req' = [req EXCEPT ![r] = [rq EXCEPT !.pc = "compare", !.doc = user]]
              /\ UNCHANGED last
      /\ UNCHANGED <<now, users, adminRequests, admins, nextId, issued, realm, unit, guard,
                     donors, donations>>

\* POST /login: await user.comparePassword(password), then jwt.sign
Login_Compare(r, isPasswordValid) ==
  /\ At(r, "login", "compare")
  /\ IF ~isPasswordValid
     THEN Respond(r, req[r], 401, "Invalid credentials", FALSE, req[r].doc)
     ELSE Respond(r, req[r], 200, "Login successful", TRUE, req[r].doc)
  /\ UNCHANGED <<now, users, adminRequests, admins, nextId, nreq, issued, realm, unit, guard,
                 donors, donations>>

LoginNext ==
  \/ Next
  \/ \E r \in Reqs, email \in Emails, role \in {"user", "admin", "superadmin"} : Login_Find(r, email, role)
  \/ \E r \in Reqs, isPasswordValid \in BOOLEAN : Login_Compare(r, isPasswordValid)

LoginSpec == Init /\ [][LoginNext]_vars

\* C28: verified of a User, and emailVerified of an AdminRequest, becomes
\* true only in the step of a request whose verifyOTP returned true on that
\* document; a stored document that has it true keeps it true; and the
\* password login answers a User with a token only if the user it loaded is
\* verified.
C28_VerifiedOnlyByOtp ==
  [][ /\ \A i \in DOMAIN users' :
           LET was == FindById(users, users'[i]._id)
           IN  users'[i].verified /\ (was = Null \/ ~was.verified)
                 => \E r \in Reqs :
                      /\ req[r].doc # Null /\ req[r].doc._id = users'[i]._id
                      /\ \/ (At(r, "verify-otp", "verify") /\ req'[r].pc = "idle" /\ last'.status = 200 /\ User_verifyOTP(req[r].doc, req[r].otp, now).ret = TRUE)
                         \/ (At(r, "login-otp", "verify") /\ req'[r].pc = "idle" /\ last'.status = 200 /\ User_verifyOTP(req[r].doc, req[r].otp, now).ret = TRUE)
      /\ \A i \in DOMAIN adminRequests' :
           LET was == FindById(adminRequests, adminRequests'[i]._id)
           IN  adminRequests'[i].emailVerified /\ (was = Null \/ ~was.emailVerified)
                 => \E r \in Reqs :
                      /\ req[r].doc # Null /\ req[r].doc._id = adminRequests'[i]._id
                      /\ (At(r, "admin-request/verify-otp", "verify") /\ req'[r].pc = "idle" /\ last'.status = 200 /\ AdminRequest_verifyOTP(req[r].doc, req[r].otp, now).ret = TRUE)
      /\ \A i \in DOMAIN users :
           users[i].verified /\ HasId(users', users[i]._id)
             => FindById(users', users[i]._id).verified
      /\ \A i \in DOMAIN adminRequests :
           adminRequests[i].emailVerified /\ HasId(adminRequests', adminRequests[i]._id)
             => FindById(adminRequests', adminRequests[i]._id).emailVerified
      /\ \A r \in Reqs :
           /\ At(r, "login", "compare") /\ req[r].userType = "user"
           /\ req'[r].pc = "idle" /\ last'.token
           => /\ req[r].doc.verified
              /\ FindById(users, req[r].doc._id) # Null => FindById(users, req[r].doc._id).verified
    ]_vars

C28_Witness ==
  /\ last.op = "login" /\ last.status = 200 /\ last.token
  /\ last.email = UserEmail
  /\ last.after # Null /\ last.after.verified
  /\ \E g \in DOMAIN issued : issued[g].accepted > 0

(***************************************************************************)
(* routes/adminRoutes.js, mounted at /api/admin and /api/admins:           *)
(*   POST /, PUT /:id, DELETE /:id, POST /promote/:id                      *)
(*     behind authenticate, authorize('admin', 'superadmin') and the       *)
(*     handler's own test of req.user.role.                                *)
(* An Admin is [_id, email, role].  A request in flight holds the          *)
(* principal authenticate loaded (user, userType) and the document the     *)
(* handler loaded (doc).                                                   *)
(***************************************************************************)

\* the role field of a body: absent, or a string; the email field is a
\* string, empty when left out (an empty email is falsy as an absent one is)
RoleValue(name) == [t |-> "string", v |-> name]

\* the bodies of POST /: a new email with the role left out or main, and
\* the email of a stored admin
CreateBodies ==
  { [email |-> "newadmin@mmmut.ac.in", role |-> role, password |-> SomePassword] :
      role \in {Undefined, RoleValue("main")} }
    \cup { [email |-> SuperAdminEmail, role |-> Undefined, password |-> SomePassword] }

NoAdminBody == [email |-> "", role |-> Undefined, password |-> Undefined]

\* the bearer tokens presented: the signed claims of the seeded super
\* admin, of the approved admin and of the user
AdminTokens ==
  { [kind |-> "valid", id |-> 1, type |-> "admin"],
    [kind |-> "valid", id |-> 3, type |-> "admin"],
    [kind |-> "valid", id |-> 2, type |-> "user"] }

\* the ids of the stored admins, the ones PUT and DELETE name
AdminIds == {1, 3}

AdminIdle ==
  [pc |-> "idle", op |-> "", token |-> [kind |-> "none", id |-> 0, type |-> ""],
   id |-> 0, body |-> NoAdminBody, user |-> Null, userType |-> "", doc |-> Null]

AdminInit ==
  /\ now = 0
  /\ users = GuardUsers
  /\ adminRequests = <<>>
  /\ admins = GuardAdmins
  /\ nextId = 5
  /\ nreq = 0
  /\ req = [r \in Reqs |-> AdminIdle]
  /\ last = [op |-> "", id |-> 0, token |-> [kind |-> "none", id |-> 0, type |-> ""],
             status |-> 0, message |-> ""]
  /\ issued = <<>>
  /\ realm = "admins"
  /\ donors = <<>>
  /\ donations = <<>>
  /\ unit = UnitIdle
  /\ guard = GuardIdle

\* res.status(status).json(...): the request on slot r is answered
Admin_Respond(r, rq, status, message) ==
  /\ last' = [op |-> rq.op, id |-> rq.id, token |-> rq.token,
              status |-> status, message |-> message]
  /\ req' = [req EXCEPT ![r] = AdminIdle]

\* a request arrives and authenticate runs, to its await on findById
Admin_Authenticate(r, op, token, id, body) ==
  LET rq == [AdminIdle EXCEPT !.op = op, !.token = token, !.id = id, !.body = body]
      out == authenticate(rq, token, users, admins)
  IN  /\ Free(r, "admins")
      /\ nreq' = nreq + 1
      /\ IF out.next
         THEN req' = [req EXCEPT ![r] = [out.req EXCEPT !.pc = "authorize"]] /\ UNCHANGED last
         ELSE Admin_Respond(r, rq, out.status, out.message)
      /\ UNCHANGED <<now, users, adminRequests, admins, nextId, issued, realm, unit, guard,
                     donors, donations>>

\* authorize('admin', 'superadmin') and then the handler's first lines:
\* if (req.user.role !== 'main') return 403
SuperAdminOnly(rq) ==
  LET out == authorize(ReviewRoles, rq)
  IN  IF ~out.next THEN out
      ELSE IF rq.userType # "admin" \/ rq.user.role # "main"
      THEN Deny(403, "Access denied. Super admin privileges required.", rq)
      ELSE CallNext(rq)

\* Admin.countDocuments({ role: 'main' })
CountMain(coll) == Cardinality({ i \in DOMAIN coll : coll[i].role = "main" })

\* POST / without authorize and without the test of req.user.role
CreateAdmin_Find_Unguarded(r) ==
  LET out == CallNext(req[r])
      body == req[r].body
  IN  /\ At(r, "create-admin", "authorize")
      /\ IF ~out.next
         THEN Admin_Respond(r, req[r], out.status, out.message)
         ELSE IF body.email = "" \/ ~Truthy(body.password)
         THEN Admin_Respond(r, req[r], 400, "Name, email and password are required")
         ELSE IF Len(body.password.v) < 6
         THEN Admin_Respond(r, req[r], 400, "Password must be at least 6 characters long")
         ELSE IF FindOne(admins, body.email) # Null
         THEN Admin_Respond(r, req[r], 400, "Admin with this email already exists")
         ELSE req' = [req EXCEPT ![r].pc = "save"] /\ UNCHANGED last
      /\ UNCHANGED <<now, users, adminRequests, admins, nextId, nreq, issued, realm, unit, guard,
                     donors, donations>>

\* POST /: the guards, the validation of the body and await Admin.findOne({ email })
CreateAdmin_Find(r) ==
  LET out == SuperAdminOnly(req[r])
      body == req[r].body
  IN  /\ At(r, "create-admin", "authorize")
      /\ IF ~out.next
         THEN Admin_Respond(r, req[r], out.status, out.message)
         ELSE IF body.email = "" \/ ~Truthy(body.password)
         THEN Admin_Respond(r, req[r], 400, "Name, email and password are required")
         ELSE IF Len(body.password.v) < 6
         THEN Admin_Respond(r, req[r], 400, "Password must be at least 6 characters long")
         ELSE IF FindOne(admins, body.email) # Null
         THEN Admin_Respond(r, req[r], 400, "Admin with this email already exists")
         ELSE req' = [req EXCEPT ![r].pc = "save"] /\ UNCHANGED last
      /\ UNCHANGED <<now, users, adminRequests, admins, nextId, nreq, issued, realm, unit, guard,
                     donors, donations>>

\* POST /: new Admin with the role of the body if it is one of the three,
\* else normal; await newAdmin.save().  Whether the collection refuses a
\* second account of one email is the Admin model's index, either way.
CreateAdmin_Save(r, uniqueEmail) ==
  LET body == req[r].body
      role == IF body.role.t = "string" /\ body.role.v \in {"user", "normal", "main"} THEN body.role.v ELSE "normal"
      newAdmin == [_id |-> nextId, email |-> body.email, role |-> role]
  IN  /\ At(r, "create-admin", "save")
      /\ IF uniqueEmail /\ FindOne(admins, body.email) # Null
         THEN /\ Admin_Respond(r, req[r], 400, "Email already exists")
              /\ UNCHANGED <<admins, nextId>>
         ELSE /\ admins' = Append(admins, newAdmin)
              /\ nextId' = nextId + 1
              /\ Admin_Respond(r, req[r], 201, "Admin created successfully")
      /\ UNCHANGED <<now, users, adminRequests, nreq, issued, realm, unit, guard, donors, donations>>

\* PUT /:id without the test that a main admin is edited by itself only
UpdateAdmin_Find_EditsOtherSuperAdmins(r) ==
  LET out == SuperAdminOnly(req[r])
      admin == FindById(admins, req[r].id)
  IN  /\ At(r, "update-admin", "authorize")
      /\ IF ~out.next
         THEN Admin_Respond(r, req[r], out.status, out.message)
         ELSE IF admin = Null
         THEN Admin_Respond(r, req[r], 404, "Admin not found")
         ELSE /\ req' = [req EXCEPT ![r].doc = admin,
                                    ![r].pc = IF admin.role = "main" /\ (req[r].body.role.t = "string" /\ req[r].body.role.v # "main")
                                              THEN "count" ELSE "save"]
              /\ UNCHANGED last
      /\ UNCHANGED <<now, users, adminRequests, admins, nextId, nreq, issued, realm, unit, guard,
                     donors, donations>>

\* PUT /:id: the guards, await Admin.findById(id), and the tests on the
\* loaded admin up to await Admin.countDocuments
UpdateAdmin_Find(r) ==
  LET out == SuperAdminOnly(req[r])
      admin == FindById(admins, req[r].id)
  IN  /\ At(r, "update-admin", "authorize")
      /\ IF ~out.next
         THEN Admin_Respond(r, req[r], out.status, out.message)
         ELSE IF admin = Null
         THEN Admin_Respond(r, req[r], 404, "Admin not found")
         ELSE IF admin.role = "main" /\ req[r].user._id # req[r].id
         THEN Admin_Respond(r, req[r], 400, "Cannot edit other super admins")
         ELSE /\ req' = [req EXCEPT ![r].doc = admin,
                                    ![r].pc = IF admin.role = "main" /\ (req[r].body.role.t = "string" /\ req[r].body.role.v # "main")
                                              THEN "count" ELSE "save"]
              /\ UNCHANGED last
      /\ UNCHANGED <<now, users, adminRequests, admins, nextId, nreq, issued, realm, unit, guard,
                     donors, donations>>

\* PUT /:id: what Admin.countDocuments({ role: 'main' }) returned
UpdateAdmin_Count(r) ==
  /\ At(r, "update-admin", "count")
  /\ IF CountMain(admins) <= 1
     THEN Admin_Respond(r, req[r], 400,
                        "Cannot demote the last super admin. At least one super admin must exist.")
     ELSE req' = [req EXCEPT ![r].pc = "save"] /\ UNCHANGED last
  /\ UNCHANGED <<now, users, adminRequests, admins, nextId, nreq, issued, realm, unit, guard,
                 donors, donations>>

\* PUT /:id: the fields of the body are set on the loaded admin and await
\* admin.save() writes the modified paths
UpdateAdmin_Save(r) ==
  LET body == req[r].body
      loaded == req[r].doc
      withEmail == IF body.email # "" THEN [loaded EXCEPT !.email = body.email] ELSE loaded
      admin == IF body.role.t = "string" /\ body.role.v \in {"user", "normal", "main"}
               THEN [withEmail EXCEPT !.role = body.role.v] ELSE withEmail
  IN  /\ At(r, "update-admin", "save")
      /\ IF ~HasId(admins, admin._id)
         THEN /\ Admin_Respond(r, req[r], 500, "Failed to update admin")
              /\ UNCHANGED admins
         ELSE /\ admins' = UpdatePaths(admins, admin, ModifiedPaths(loaded, admin))
              /\ Admin_Respond(r, req[r], 200, "Admin updated successfully")
      /\ UNCHANGED <<now, users, adminRequests, nextId, nreq, issued, realm, unit, guard,
                     donors, donations>>

\* DELETE /:id without authorize and without the test of req.user.role
DeleteAdmin_Find_Unguarded(r) ==
  LET out == CallNext(req[r])
      admin == FindById(admins, req[r].id)
  IN  /\ At(r, "delete-admin", "authorize")
      /\ IF ~out.next
         THEN Admin_Respond(r, req[r], out.status, out.message)
         ELSE IF admin = Null
         THEN Admin_Respond(r, req[r], 404, "Admin not found")
         ELSE /\ req' = [req EXCEPT ![r].doc = admin,
                                    ![r].pc = IF admin.role = "main" THEN "count" ELSE "delete"]
              /\ UNCHANGED last
      /\ UNCHANGED <<now, users, adminRequests, admins, nextId, nreq, issued, realm, unit, guard,
                     donors, donations>>

\* DELETE /:id: the guards and await Admin.findById(id)
DeleteAdmin_Find(r) ==
  LET out == SuperAdminOnly(req[r])
      admin == FindById(admins, req[r].id)
  IN  /\ At(r, "delete-admin", "authorize")
      /\ IF ~out.next
         THEN Admin_Respond(r, req[r], out.status, out.message)
         ELSE IF admin = Null
         THEN Admin_Respond(r, req[r], 404, "Admin not found")
         ELSE /\ req' = [req EXCEPT ![r].doc = admin,
                                    ![r].pc = IF admin.role = "main" THEN "count" ELSE "delete"]
              /\ UNCHANGED last
      /\ UNCHANGED <<now, users, adminRequests, admins, nextId, nreq, issued, realm, unit, guard,
                     donors, donations>>

\* DELETE /:id: what Admin.countDocuments({ role: 'main' }) returned
DeleteAdmin_Count(r) ==
  /\ At(r, "delete-admin", "count")
  /\ IF CountMain(admins) <= 1
     THEN Admin_Respond(r, req[r], 400,
                        "Cannot remove the last super admin. At least one super admin must exist.")
     ELSE req' = [req EXCEPT ![r].pc = "delete"] /\ UNCHANGED last
  /\ UNCHANGED <<now, users, adminRequests, admins, nextId, nreq, issued, realm, unit, guard,
                 donors, donations>>

\* DELETE /:id: await Admin.findByIdAndDelete(id)
DeleteAdmin_Apply(r) ==
  /\ At(r, "delete-admin", "delete")
  /\ admins' = DeleteById(admins, req[r].id)
  /\ Admin_Respond(r, req[r], 200, "Admin removed successfully")
  /\ UNCHANGED <<now, users, adminRequests, nextId, nreq, issued, realm, unit, guard,
                 donors, donations>>

\* POST /promote/:id: the guards, await User.findById(id) and the test of verified
Promote_Find(r) ==
  LET out == SuperAdminOnly(req[r])
      user == FindById(users, req[r].id)
  IN  /\ At(r, "promote", "authorize")
      /\ IF ~out.next
         THEN Admin_Respond(r, req[r], out.status, out.message)
         ELSE IF user = Null
         THEN Admin_Respond(r, req[r], 404, "User not found")
         ELSE IF ~user.verified
         THEN Admin_Respond(r, req[r], 400, "Cannot promote unverified user")
         ELSE req' = [req EXCEPT ![r].doc = user, ![r].pc = "findAdmin"] /\ UNCHANGED last
      /\ UNCHANGED <<now, users, adminRequests, admins, nextId, nreq, issued, realm, unit, guard,
                     donors, donations>>

\* the role POST /promote/:id gives: const { role = 'normal' } = req.body
PromoteRole(body) == IF body.role.t = "undefined" THEN "normal" ELSE body.role.v

\* POST /promote/:id: await Admin.findOne({ email: user.email }) and the
\* test of the role
Promote_FindAdmin(r) ==
  /\ At(r, "promote", "findAdmin")
  /\ IF FindOne(admins, req[r].doc.email) # Null
     THEN Admin_Respond(r, req[r], 400, "User is already an admin")
     ELSE IF PromoteRole(req[r].body) \notin {"user", "normal", "main"}
     THEN Admin_Respond(r, req[r], 400, "Invalid role specified")
     ELSE req' = [req EXCEPT ![r].pc = "save"] /\ UNCHANGED last
  /\ UNCHANGED <<now, users, adminRequests, admins, nextId, nreq, issued, realm, unit, guard,
                 donors, donations>>

\* POST /promote/:id: new Admin of the user's email, await newAdmin.save()
Promote_Save(r, uniqueEmail) ==
  LET newAdmin == [_id |-> nextId, email |-> req[r].doc.email, role |-> PromoteRole(req[r].body)]
  IN  /\ At(r, "promote", "save")
      /\ IF uniqueEmail /\ FindOne(admins, newAdmin.email) # Null
         THEN /\ Admin_Respond(r, req[r], 500, "Failed to promote user")
              /\ UNCHANGED <<admins, nextId>>
         ELSE /\ admins' = Append(admins, newAdmin)
              /\ nextId' = nextId + 1
              /\ Admin_Respond(r, req[r], 200, "User promoted to " \o newAdmin.role \o " successfully")
      /\ UNCHANGED <<now, users, adminRequests, nreq, issued, realm, unit, guard, donors, donations>>

AdminNext ==
  \/ \E r \in Reqs, token \in AdminTokens, body \in CreateBodies :
       Admin_Authenticate(r, "create-admin", token, 0, body)
  \/ \E r \in Reqs, token \in AdminTokens, id \in AdminIds,
        role \in {RoleValue("normal"), RoleValue("main")} :
       Admin_Authenticate(r, "update-admin", token, id, [NoAdminBody EXCEPT !.role = role])
  \/ \E r \in Reqs, token \in AdminTokens, id \in AdminIds :
       Admin_Authenticate(r, "delete-admin", token, id, NoAdminBody)
  \/ \E r \in Reqs, token \in AdminTokens :
       Admin_Authenticate(r, "promote", token, 2, NoAdminBody)
  \/ \E r \in Reqs : CreateAdmin_Find(r)
  \/ \E r \in Reqs, uniqueEmail \in BOOLEAN : CreateAdmin_Save(r, uniqueEmail)
  \/ \E r \in Reqs : UpdateAdmin_Find(r)
  \/ \E r \in Reqs : UpdateAdmin_Count(r)
  \/ \E r \in Reqs : UpdateAdmin_Save(r)
  \/ \E r \in Reqs : DeleteAdmin_Find(r)
  \/ \E r \in Reqs : DeleteAdmin_Count(r)
  \/ \E r \in Reqs : DeleteAdmin_Apply(r)
  \/ \E r \in Reqs : Promote_Find(r)
  \/ \E r \in Reqs : Promote_FindAdmin(r)
  \/ \E r \in Reqs, uniqueEmail \in BOOLEAN : Promote_Save(r, uniqueEmail)

AdminSpec == AdminInit /\ [][AdminNext]_vars

\* C21: the Admin collection holds an Admin with role main in every state.
C21_SuperAdminRemains ==
  \E i \in DOMAIN admins : admins[i].role = "main"

\* the principal of the request on slot r, as authenticate loaded it, is an
\* Admin with role main
ByMainAdmin(r) == req[r].userType = "admin" /\ req[r].user.role = "main"

Principal(token) ==
  IF token.type = "user" THEN FindById(users, token.id)
  ELSE IF token.type = "admin" THEN FindById(admins, token.id)
  ELSE Null

\* C29: a request is let past authenticate only with the record its token
\* names as it is stored when the request arrives, so the token of a removed
\* admin is answered 401 on arrival; and a request whose principal is not a
\* main admin is answered 403 by the {admin, superadmin} routes and writes
\* nothing.
C29_DecidedOnStoredRecord ==
  [][ /\ \A r \in Reqs :
           req[r].pc = "idle" /\ req'[r].pc # "idle"
             => Principal(req'[r].token) # Null /\ req'[r].user = Principal(req'[r].token)
      /\ nreq' # nreq /\ req' = req
           => last'.status = 401 /\ Principal(last'.token) = Null
      /\ \A r \in Reqs :
           req[r].pc = "authorize" /\ req'[r] # req[r] /\ ~ByMainAdmin(r)
             => last'.status = 403 /\ req'[r].pc = "idle" /\ UNCHANGED admins ]_vars

C29_Witness ==
  /\ last.status = 401
  /\ last.token = [kind |-> "valid", id |-> 3, type |-> "admin"]
  /\ FindById(admins, 3) = Null

\* C30: a PUT /:id that finds an Admin with role main other than its own
\* principal is answered 400 Cannot edit other super admins and writes
\* nothing; and a PUT that writes the record of an Admin it loaded with role
\* main is a request of that admin.
C30_SuperAdminEditsItself ==
  [][ \A r \in Reqs :
        /\ At(r, "update-admin", "authorize") /\ req'[r] # req[r] /\ ByMainAdmin(r)
           /\ FindById(admins, req[r].id) # Null
           /\ FindById(admins, req[r].id).role = "main"
           /\ req[r].user._id # req[r].id
           => /\ last'.status = 400 /\ last'.message = "Cannot edit other super admins"
              /\ req'[r].pc = "idle"
              /\ UNCHANGED admins
        /\ At(r, "update-admin", "save") /\ req'[r] # req[r] /\ admins' # admins
           /\ req[r].doc.role = "main"
           => req[r].user._id = req[r].id ]_vars

C30_Witness ==
  /\ last.op = "update-admin" /\ last.status = 400
  /\ last.message = "Cannot edit other super admins"
  /\ FindById(admins, last.id) # Null /\ FindById(admins, last.id).role = "main"
  /\ last.token.id # last.id

====
